---- MODULE Spec2Model ----
(***************************************************************************)
(* pitch2play: newsletter e-mails -> (artist, album) pairs -> monthly      *)
(* playlists -> archive of the processed messages.                         *)
(*                                                                         *)
(* Strings are sequences of one-character strings.  The repository holds   *)
(* two implementations of the pipeline: the single-file script             *)
(* pitchfork_spotify_playlist.mjs ("legacy") and the modular services      *)
(* under src/ ("modular"); the variable impl says which one runs.          *)
(***************************************************************************)
EXTENDS Integers, Sequences, FiniteSets, TLC

VARIABLES
    impl,        \* "legacy" | "modular": which implementation runs
    \* ---- stripHtml ----
    sInput,      \* the string handed to stripHtml
    sOnce,       \* stripHtml(sInput), or NoStr before the call
    sTwice,      \* stripHtml(stripHtml(sInput)), or NoStr before the call
    \* ---- extractAlbumArtistPairs ----
    body,        \* the rawBody argument
    pairs,       \* the local array pairs
    pc,          \* position in extractAlbumArtistPairs
    idx,         \* index of the next element of the running .each / for loop
    calls,       \* history: every addPair(artist, album) call so far, with
                 \* the length of pairs before and after it
    threw,       \* history: the try block threw
    outcome,     \* "running" | "returned" | "raised"
    result,      \* the returned array once outcome = "returned"
    \* ---- the sync run ----
    mailbox,     \* the messages the server's search finds, uids ascending
    unknownAlbums, \* the catalog: the albums a search does not find
    stuckUids,   \* the mailbox server: the uids it refuses to move
    playlists,   \* the catalog: the user's playlists, each with its tracks
    emails,      \* the array fetchAllMatchingEmails returned
    monthToPairs, \* the Map monthStr -> pairs, entries in insertion order
    successfulEmailUids, \* the Set of uids, elements in insertion order
    spc,         \* position in the run
    mailIdx,     \* index of the next element of the running for loop
    pairIdx,     \* index of the next pair of the inner for loop
    playlistName, \* the playlist of the month being processed
    monthPairs,  \* the local array pairs of the month being processed
    existingUris, \* the tracks read from that playlist
    toAdd,       \* the local array toAdd
    requests,    \* history: every call of the catalog service, in order
    moved,       \* history: every moveEmailToTrash(uid) call, with its success
    syncOutcome, \* "running" | "returned" | "failed"
    credentials, \* the environment: "ok" | "noEnv" | "noRefreshToken"
    catalogQuirk, \* the catalog: "none" | "broken" | "alias"
    run,         \* the number of the run, also the clock of the catalog
    completedRuns, \* history: the runs before this one that returned normally
    \* ---- searchAlbum ----
    qAlbum,      \* the album argument
    qArtist,     \* the artist argument
    candidates,  \* the local array candidates, each as its q
    cand,        \* index of the next candidate
    issued,      \* history: the q of every search request sent, in order
    answers,     \* history: the catalog's answer to each of them
    searchResult, \* "idle" | "called" | "pending" | "album" | "null" | "threw"
    \* ---- the trash mover ----
    listing,     \* the mail server: the lines its LIST command answers with
    capabilities, \* the mail server: imap.serverCapabilities
    refusals,    \* the mail server: the commands it answers with an error
    refusedUids, \* the mail server: the uids it refuses to MOVE or COPY
    tUids,       \* the uids argument
    tTarget,     \* the target argument, <<>> when omitted
    dryRun,      \* the dryRun argument
    tpc,         \* position in moveUidsToTrash / findTrashFolder
    trashFolder, \* the local trashFolder, <<>> while there is none
    tIdx,        \* index of the next uid of the for loop
    successCount, \* the local successCount
    imapLog,     \* history: every command sent to the mail server, in order
    moveResults, \* history: what moveUid returned for each uid, in order
    tResult,     \* "none" | "returned" | the reason of the rejection
    \* ---- callWithRetry ----
    maxRetries,  \* the maxRetries argument
    baseDelayMs, \* the baseDelayMs argument
    attempt,     \* the loop variable attempt
    fnCalls,     \* history: the outcome of every call of fn, in order
    waits,       \* history: the delay of every sleep, in order
    retryState,  \* "idle" | "loop" | "sleep" | "returned" | "threw"
    retryValue,  \* the call of fn whose value was returned or error thrown
    \* ---- decodeMimeEncodedWords ----
    mimeInput,   \* the str argument
    mimeOutput,  \* the returned string, or NoStr before the call
    \* ---- failing catalog requests ----
    faults       \* history: the catalog requests answered with an error

vars == <<impl, sInput, sOnce, sTwice, body, pairs, pc, idx, calls, threw,
          outcome, result, mailbox, unknownAlbums, stuckUids, playlists, emails,
          monthToPairs, successfulEmailUids, spc, mailIdx, pairIdx, playlistName,
          monthPairs, existingUris, toAdd, requests, moved, syncOutcome,
          credentials, catalogQuirk, run, completedRuns,
          qAlbum, qArtist, candidates, cand, issued, answers, searchResult,
          listing, capabilities, refusals, refusedUids, tUids, tTarget, dryRun, tpc,
          trashFolder, tIdx, successCount, imapLog, moveResults, tResult,
          maxRetries, baseDelayMs, attempt, fnCalls, waits, retryState, retryValue,
          mimeInput, mimeOutput, faults>>

Impls == {"legacy", "modular"}

-----------------------------------------------------------------------------
(* Characters and strings                                                  *)

NoStr == <<"<none>">>

UpperCase == {"A","B","C","D","E","F","G","H","I","J","K","L","M",
              "N","O","P","Q","R","S","T","U","V","W","X","Y","Z"}

LowerOf == [c \in UpperCase |->
    CASE c = "A" -> "a" [] c = "B" -> "b" [] c = "C" -> "c" [] c = "D" -> "d"
      [] c = "E" -> "e" [] c = "F" -> "f" [] c = "G" -> "g" [] c = "H" -> "h"
      [] c = "I" -> "i" [] c = "J" -> "j" [] c = "K" -> "k" [] c = "L" -> "l"
      [] c = "M" -> "m" [] c = "N" -> "n" [] c = "O" -> "o" [] c = "P" -> "p"
      [] c = "Q" -> "q" [] c = "R" -> "r" [] c = "S" -> "s" [] c = "T" -> "t"
      [] c = "U" -> "u" [] c = "V" -> "v" [] c = "W" -> "w" [] c = "X" -> "x"
      [] c = "Y" -> "y" [] OTHER -> "z"]

\* String.prototype.toLowerCase, per character
LowerChar(c) == IF c \in UpperCase THEN LowerOf[c] ELSE c

toLowerCase(s) == [i \in 1..Len(s) |-> LowerChar(s[i])]

\* the characters the regular-expression class \s and trim() treat as blank
IsSpace(c) == c \in {" ", "\n", "\r", "\t"}

\* the characters at which the fallback splits the text into lines
IsLineBreak(c) == c \in {"\n", "\r"}

\* the least position of a set of positions, 0 if there is none
MinPos(S) == IF S = {} THEN 0 ELSE CHOOSE k \in S : \A j \in S : k <= j

TrimLeft(s) ==
    LET f == MinPos({k \in 1..Len(s) : ~IsSpace(s[k])})
    IN  IF f = 0 THEN <<>> ELSE SubSeq(s, f, Len(s))

\* the blank tail of s starts at the least k from which on all is blank
TrimRight(s) ==
    SubSeq(s, 1, MinPos({k \in 1..(Len(s) + 1) : \A j \in k..Len(s) : IsSpace(s[j])}) - 1)

\* String.prototype.trim
trim(s) == TrimRight(TrimLeft(s))

\* s has pat at position i (1-based)
HasAt(s, i, pat) ==
    /\ i >= 1
    /\ i + Len(pat) - 1 <= Len(s)
    /\ \A k \in 1..Len(pat) : s[i + k - 1] = pat[k]

\* the same, ignoring case (the i flag)
HasAtCI(s, i, pat) == HasAt(toLowerCase(s), i, toLowerCase(pat))

\* first position >= i at which pat occurs in s, 0 if none
IndexFrom(s, i, pat) == MinPos({k \in i..(Len(s) - Len(pat) + 1) : HasAt(s, k, pat)})

Drop(s, n) == SubSeq(s, n + 1, Len(s))

\* String.prototype.replaceAll(pat, rep) / replace(/pat/g, rep) for a literal pat
RECURSIVE replaceAll(_, _, _)
replaceAll(s, pat, rep) ==
    LET j == IndexFrom(s, 1, pat)
    IN  IF j = 0 THEN s
        ELSE SubSeq(s, 1, j - 1) \o rep \o replaceAll(Drop(s, j + Len(pat) - 1), pat, rep)

-----------------------------------------------------------------------------
(* stripHtml                                                               *)

\* replace(/<open[\s\S]*?<\/close>/gi, ''): each leftmost opener up to the
\* nearest closer after it is removed, content included
RECURSIVE RemoveBlocks(_, _, _)
RemoveBlocks(s, open, close) ==
    LET low == toLowerCase(s)
        j == IndexFrom(low, 1, toLowerCase(open))
        e == IndexFrom(low, j + Len(open), toLowerCase(close))
    IN  IF j = 0 \/ e = 0 THEN s
        ELSE SubSeq(s, 1, j - 1) \o RemoveBlocks(Drop(s, e + Len(close) - 1), open, close)

\* replace(/<[^>]+>/g, ' '): '<', one or more characters other than '>', '>'
RECURSIVE RemoveTags(_)
RemoveTags(s) ==
    LET j == IndexFrom(s, 1, <<"<">>)
        k == IndexFrom(s, j + 1, <<">">>)
    IN  IF j = 0 \/ k = 0 THEN s
        ELSE IF k = j + 1 THEN SubSeq(s, 1, j) \o RemoveTags(Drop(s, j))
        ELSE SubSeq(s, 1, j - 1) \o <<" ">> \o RemoveTags(Drop(s, k))

\* the entity table, in the order the replacements are applied
Entities == <<
    [entity |-> <<"&","n","b","s","p",";">>, char |-> <<" ">>],
    [entity |-> <<"&","a","m","p",";">>,     char |-> <<"&">>],
    [entity |-> <<"&","q","u","o","t",";">>, char |-> <<"\"">>],
    [entity |-> <<"&","#","3","9",";">>,     char |-> <<"'">>],
    [entity |-> <<"&","l","t",";">>,         char |-> <<"<">>],
    [entity |-> <<"&","g","t",";">>,         char |-> <<">">>] >>

RECURSIVE DecodeFrom(_, _)
DecodeFrom(s, k) ==
    IF k > Len(Entities) THEN s
    ELSE DecodeFrom(replaceAll(s, Entities[k].entity, Entities[k].char), k + 1)

\* one replaceAll per table entry, each on the result of the one before
decodeHtmlEntities(text) == DecodeFrom(text, 1)

\* replace(/\s+/g, ' ')
RECURSIVE CollapseSpaces(_)
CollapseSpaces(s) ==
    LET j == MinPos({k \in 1..Len(s) : IsSpace(s[k])})
    IN  IF j = 0 THEN s
        ELSE SubSeq(s, 1, j - 1) \o <<" ">> \o CollapseSpaces(TrimLeft(Drop(s, j)))

stripHtml_decodeLast(input) ==
    IF input = <<>> THEN <<>>
    ELSE LET t1 == RemoveBlocks(input, <<"<","s","t","y","l","e">>,
                                <<"<","/","s","t","y","l","e",">">>)
             t2 == RemoveBlocks(t1, <<"<","s","c","r","i","p","t">>,
                                <<"<","/","s","c","r","i","p","t",">">>)
             t3 == RemoveTags(t2)
         IN  decodeHtmlEntities(trim(CollapseSpaces(t3)))

stripHtml(input) ==
    IF input = <<>> THEN <<>>
    ELSE LET t1 == RemoveBlocks(input, <<"<","s","t","y","l","e">>,
                                <<"<","/","s","t","y","l","e",">">>)
             t2 == RemoveBlocks(t1, <<"<","s","c","r","i","p","t">>,
                                <<"<","/","s","c","r","i","p","t",">">>)
             t3 == RemoveTags(t2)
             t4 == decodeHtmlEntities(t3)
         IN  trim(CollapseSpaces(t4))

-----------------------------------------------------------------------------
(* decodeMimeEncodedWords                                                  *)

\* the characters with the codes 32..126, in code order (the grave accent,
\* code 96, is written "<grave>")
Ascii == <<
    " ", "!", "\"", "#", "$", "%", "&", "'", "(", ")", "*", "+", ",", "-", ".", "/",
    "0", "1", "2", "3", "4", "5", "6", "7", "8", "9", ":", ";", "<", "=", ">", "?",
    "@", "A", "B", "C", "D", "E", "F", "G", "H", "I", "J", "K", "L", "M", "N", "O",
    "P", "Q", "R", "S", "T", "U", "V", "W", "X", "Y", "Z", "[", "\\", "]", "^", "_",
    "<grave>", "a", "b", "c", "d", "e", "f", "g", "h", "i", "j", "k", "l", "m", "n", "o",
    "p", "q", "r", "s", "t", "u", "v", "w", "x", "y", "z", "{", "|", "}", "~" >>

\* a character whose code is outside 32..126
Unprintable == "<?>"

\* String.fromCharCode(n) / one decoded byte
CharOfCode(n) == IF n >= 32 /\ n <= 126 THEN Ascii[n - 31] ELSE Unprintable

\* position of c in the sequence tab, 0 if it is not in it
PosIn(tab, c) ==
    LET S == {k \in 1..Len(tab) : tab[k] = c}
    IN  IF S = {} THEN 0 ELSE CHOOSE k \in S : TRUE

HexDigits == <<"0","1","2","3","4","5","6","7","8","9","a","b","c","d","e","f">>

IsHex(c) == PosIn(HexDigits, LowerChar(c)) # 0

\* parseInt(h, 16) for two hexadecimal digits
HexValue(c1, c2) ==
    16 * (PosIn(HexDigits, LowerChar(c1)) - 1) + (PosIn(HexDigits, LowerChar(c2)) - 1)

\* .replace(/=([0-9A-Fa-f]{2})/g, (_, h) => String.fromCharCode(parseInt(h, 16)))
RECURSIVE DecodeHexEscapes(_)
DecodeHexEscapes(s) ==
    LET j == MinPos({k \in 1..(Len(s) - 2) : s[k] = "=" /\ IsHex(s[k + 1]) /\ IsHex(s[k + 2])})
    IN  IF j = 0 THEN s
        ELSE SubSeq(s, 1, j - 1) \o <<CharOfCode(HexValue(s[j + 1], s[j + 2]))>>
             \o DecodeHexEscapes(Drop(s, j + 2))

\* the Q branch: "_" is a blank, =HH a character code
DecodeQ(text) == DecodeHexEscapes(replaceAll(text, <<"_">>, <<" ">>))

Base64Alphabet == <<
    "A", "B", "C", "D", "E", "F", "G", "H", "I", "J", "K", "L", "M", "N", "O", "P",
    "Q", "R", "S", "T", "U", "V", "W", "X", "Y", "Z", "a", "b", "c", "d", "e", "f",
    "g", "h", "i", "j", "k", "l", "m", "n", "o", "p", "q", "r", "s", "t", "u", "v",
    "w", "x", "y", "z", "0", "1", "2", "3", "4", "5", "6", "7", "8", "9", "+", "/" >>

\* the 6-bit values of the alphabet characters of text up to the padding
RECURSIVE Sextets(_)
Sextets(text) ==
    IF text = <<>> \/ Head(text) = "=" THEN <<>>
    ELSE (IF PosIn(Base64Alphabet, Head(text)) # 0
          THEN <<PosIn(Base64Alphabet, Head(text)) - 1>> ELSE <<>>)
         \o Sextets(Tail(text))

\* the bytes four (three, two) sextets stand for
RECURSIVE BytesOf(_)
BytesOf(x) ==
    IF Len(x) < 2 THEN <<>>
    ELSE LET b1 == x[1] * 4 + (x[2] \div 16)
         IN  IF Len(x) = 2 THEN <<b1>>
             ELSE LET b2 == (x[2] % 16) * 16 + (x[3] \div 4)
                  IN  IF Len(x) = 3 THEN <<b1, b2>>
                      ELSE <<b1, b2, (x[3] % 4) * 64 + x[4]>> \o BytesOf(Drop(x, 4))

\* the B branch: Buffer.from(text, "base64").toString("utf8")
DecodeB(text) ==
    LET bytes == BytesOf(Sextets(text))
    IN  [k \in 1..Len(bytes) |-> CharOfCode(bytes[k])]

\* the encoded word =?charset?enc?text?= that starts at position i of s, if
\* one does: [^?]+ ends at the next "?"
EncodedWordAt(s, i) ==
    LET c1 == IndexFrom(s, i + 2, <<"?">>)
        t1 == IF c1 = 0 THEN 0 ELSE IndexFrom(s, c1 + 3, <<"?">>)
    IN  IF /\ HasAt(s, i, <<"=", "?">>)
           /\ c1 > i + 2
           /\ c1 + 2 <= Len(s)
           /\ s[c1 + 1] \in {"Q", "q", "B", "b"}
           /\ s[c1 + 2] = "?"
           /\ t1 > c1 + 3
           /\ HasAt(s, t1, <<"?", "=">>)
        THEN [ok |-> TRUE, enc |-> s[c1 + 1], text |-> SubSeq(s, c1 + 3, t1 - 1),
              end |-> t1 + 1]
        ELSE [ok |-> FALSE, enc |-> "", text |-> <<>>, end |-> 0]

\* str.replace(/=\?([^?]+)\?([QqBb])\?([^?]+)\?=/g, ...)
RECURSIVE decodeMimeEncodedWords(_)
decodeMimeEncodedWords(str) ==
    LET j == MinPos({k \in 1..Len(str) : EncodedWordAt(str, k).ok})
        w == EncodedWordAt(str, j)
    IN  IF j = 0 THEN str
        ELSE SubSeq(str, 1, j - 1)
             \o (IF w.enc \in {"B", "b"} THEN DecodeB(w.text) ELSE DecodeQ(w.text))
             \o decodeMimeEncodedWords(Drop(str, w.end))

-----------------------------------------------------------------------------
(* The parsed document                                                     *)
(*                                                                         *)
(* A document is the sequence of the element children of <body>.  A node   *)
(* is a container (kind "block": table.text_block.block-2, "table": any    *)
(* other table, both holding their items in one td; "div") or a single     *)
(* item standing directly in <body> (kind "item").  An item is a           *)
(* strong > a link, an em, or an img; inP says it is wrapped in a p.       *)

None == <<"<absent>">>

Link(inP, rel, text) ==
    [t |-> "a", inP |-> inP, rel |-> rel, text |-> text, alt |-> None, title |-> None]
Em(inP, text) ==
    [t |-> "em", inP |-> inP, rel |-> FALSE, text |-> text, alt |-> None, title |-> None]
Img(alt, title) ==
    [t |-> "img", inP |-> FALSE, rel |-> FALSE, text |-> <<>>, alt |-> alt, title |-> title]

Node(kind, items) == [kind |-> kind, items |-> items]

IsEm(it) == it.t = "em"
IsPEm(it) == it.t = "em" /\ it.inP
IsStrongA(it) == it.t = "a"
IsRelLink(it) == it.t = "a" /\ it.inP /\ it.rel
HasImgAttr(it) == it.t = "img" /\ (it.alt # None \/ it.title # None)

\* whether an item matches the selector sel
Matches(sel, it) ==
    CASE sel = "strong a" -> IsStrongA(it)
      [] sel = "p strong a[rel=noopener]" -> IsRelLink(it)
      [] sel = "em" -> IsEm(it)
      [] sel = "p em" -> IsPEm(it)
      [] sel = "img[alt], img[title]" -> HasImgAttr(it)

\* index of the first item of its matching sel at or after position i; 0 if
\* none
FirstFrom(its, i, sel) ==
    LET S == {k \in i..Len(its) : Matches(sel, its[k])}
    IN  IF S = {} THEN 0 ELSE CHOOSE k \in S : \A m \in S : k <= m

\* x.find(sel).first().text(), '' when nothing is selected
TextAt(its, i) == IF i = 0 THEN <<>> ELSE its[i].text

\* $(sel): the positions <<node, item>> of the matching items, in document
\* order
RECURSIVE ItemsFrom(_, _, _, _)
ItemsFrom(doc, n, i, sel) ==
    IF n > Len(doc) THEN <<>>
    ELSE IF i > Len(doc[n].items) THEN ItemsFrom(doc, n + 1, 1, sel)
    ELSE (IF Matches(sel, doc[n].items[i]) THEN << <<n, i>> >> ELSE <<>>)
         \o ItemsFrom(doc, n, i + 1, sel)

\* $('table.text_block.block-2'): the indices of the block nodes, in order
RECURSIVE BlocksFrom(_, _)
BlocksFrom(doc, n) ==
    IF n > Len(doc) THEN <<>>
    ELSE (IF doc[n].kind = "block" THEN <<n>> ELSE <<>>) \o BlocksFrom(doc, n + 1)

Blocks(doc) == BlocksFrom(doc, 1)

\* $('strong a')
StrongLinks(doc) == ItemsFrom(doc, 1, 1, "strong a")

\* $('img[alt], img[title]')
Images(doc) == ItemsFrom(doc, 1, 1, "img[alt], img[title]")

-----------------------------------------------------------------------------
(* extractAlbumArtistPairs                                                 *)

MaxPairs == 10

Key_caseSensitive(artist, album) == artist \o <<":", ":">> \o album

Key(artist, album) == toLowerCase(artist) \o <<":", ":">> \o toLowerCase(album)

PairKey(p) == Key(p.artist, p.album)

HasKey(ps, key) == \E k \in 1..Len(ps) : PairKey(ps[k]) = key

\* (x || '').trim(): a missing argument counts as ''
OrEmpty(x) == IF x = None THEN <<>> ELSE x

ValidPair_artistOnly(a, b) == ~(a = <<>> \/ b = <<>> \/ Len(a) < 2)

\* the guard of addPair: both trimmed components at least 2 long
ValidPair(a, b) == ~(a = <<>> \/ b = <<>> \/ Len(a) < 2 \/ Len(b) < 2)

addPair(ps, artist, album) ==
    LET a == trim(OrEmpty(artist))
        b == trim(OrEmpty(album))
    IN  IF ~ValidPair(a, b) THEN ps
        ELSE IF ~HasKey(ps, Key(a, b)) THEN Append(ps, [artist |-> a, album |-> b])
        ELSE ps

\* if (pairs.length >= 10) return;
Full_offByOne(ps) == Len(ps) > MaxPairs

Full(ps) == Len(ps) >= MaxPairs

\* the history entry of one addPair call
CallOf(ps, artist, album) ==
    [artist |-> artist, album |-> album,
     before |-> ps, after |-> addPair(ps, artist, album)]

\* Primary strategy, the artist of one block: the rel="noopener" link of a
\* strong run inside a p, else the first strong link of the block
BlockArtist(its) ==
    LET first == trim(TextAt(its, FirstFrom(its, 1, "p strong a[rel=noopener]")))
    IN  IF first # <<>> THEN first
        ELSE trim(TextAt(its, FirstFrom(its, 1, "strong a")))

\* Primary strategy, the album of one block: the first em of the p's that
\* follow the artist's p, else the first em of the block
BlockAlbum(its) ==
    LET link == FirstFrom(its, 1, "p strong a[rel=noopener]")
        nextEm == IF link = 0 THEN 0 ELSE FirstFrom(its, link + 1, "p em")
        album == IF nextEm = 0 THEN <<>> ELSE trim(its[nextEm].text)
    IN  IF album # <<>> THEN album
        ELSE trim(TextAt(its, FirstFrom(its, 1, "em")))

\* next.find('em').first() for a following sibling of the container: the
\* first em below it (an em standing alone is no descendant of itself)
SiblingEm(node) ==
    IF node.kind = "item"
    THEN (IF IsPEm(node.items[1]) THEN node.items[1].text ELSE <<>>)
    ELSE TextAt(node.items, FirstFrom(node.items, 1, "em"))

SiblingReach == 4

\* the loop over the following siblings: the first non-empty em text
RECURSIVE NextSiblingsEm(_, _, _)
NextSiblingsEm(doc, n, i) ==
    IF ~(i < SiblingReach /\ n <= Len(doc)) THEN <<>>
    ELSE LET text == trim(SiblingEm(doc[n]))
         IN  IF text # <<>> THEN text ELSE NextSiblingsEm(doc, n + 1, i + 1)

\* _findNearestEm(startEl) for the link at node n: the container is the
\* closest table, td or div; a td has no following sibling, a link that
\* stands directly in <body> has no container
findNearestEm(doc, n) ==
    LET node == doc[n]
    IN  IF node.kind = "item" THEN <<>>
        ELSE LET text == trim(TextAt(node.items, FirstFrom(node.items, 1, "em")))
             IN  IF text # <<>> THEN text
                 ELSE IF node.kind = "div" THEN NextSiblingsEm(doc, n + 1, 0)
                 ELSE <<>>

\* the character U+2013 (en dash)
EnDash == "ndash"

IsDash(c) == c \in {EnDash, "-"}

IsSeparator(c) == c \in {":", EnDash, "-"}

\* the number of blank characters of s from position i on
RECURSIVE SpaceRun(_, _)
SpaceRun(s, i) == IF i <= Len(s) /\ IsSpace(s[i]) THEN 1 + SpaceRun(s, i + 1) ELSE 0

\* '.' matches every character but a line terminator
NoLineBreak(s) == \A k \in 1..Len(s) : ~IsLineBreak(s[k])

MinArtistLen == 2
MaxArtistLen == 80
MinAlbumLen == 2
MaxAlbumLen == 140

\* the lengths p of group 1 for which /^(.{2,80})\s*[:-]\s*(.{2,140})$/ matches
ImgSplits(txt) ==
    {p \in MinArtistLen..MaxArtistLen :
        /\ p < Len(txt)
        /\ LET sep == p + SpaceRun(txt, p + 1) + 1
               rest == Drop(txt, sep)
           IN  /\ sep <= Len(txt)
               /\ IsSeparator(txt[sep])
               /\ Len(rest) >= MinAlbumLen
               /\ Len(rest) - SpaceRun(rest, 1) <= MaxAlbumLen
               /\ NoLineBreak(SubSeq(txt, 1, p))
               /\ NoLineBreak(rest)}

\* a failed match (null)
NoMatch == [ok |-> FALSE, artist |-> <<>>, album |-> <<>>]

\* txt.match(pat): group 1 is greedy, so the longest split wins; group 2 is
\* what is left once the blanks after the separator are skipped, as far as
\* that leaves it 2 characters
ImgMatch(txt) ==
    LET S == ImgSplits(txt)
    IN  IF S = {} THEN NoMatch
        ELSE LET p == CHOOSE x \in S : \A y \in S : y <= x
                 rest == Drop(txt, p + SpaceRun(txt, p + 1) + 1)
                 skip == IF Len(rest) - SpaceRun(rest, 1) >= MinAlbumLen
                         THEN SpaceRun(rest, 1) ELSE Len(rest) - MinAlbumLen
             IN  [ok |-> TRUE, artist |-> SubSeq(txt, 1, p), album |-> Drop(rest, skip)]

\* [alt, title].filter(Boolean) of every selected image, flattened in order:
\* the texts the image strategy tries to match
RECURSIVE CandidatesOf(_, _, _)
CandidatesOf(doc, imgs, k) ==
    IF k > Len(imgs) THEN <<>>
    ELSE LET it == doc[imgs[k][1]].items[imgs[k][2]]
             alt == trim(OrEmpty(it.alt))
             title == trim(OrEmpty(it.title))
         IN  (IF alt # <<>> THEN <<alt>> ELSE <<>>)
             \o (IF title # <<>> THEN <<title>> ELSE <<>>)
             \o CandidatesOf(doc, imgs, k + 1)

ImageCandidates(doc) == CandidatesOf(doc, Images(doc), 1)

\* text.split(/\n|\r|.../) : the pieces between line terminators
RECURSIVE SplitLines(_)
SplitLines(s) ==
    LET j == MinPos({k \in 1..Len(s) : IsLineBreak(s[k])})
    IN  IF j = 0 THEN <<s>>
        ELSE <<SubSeq(s, 1, j - 1)>> \o SplitLines(Drop(s, j))

\* .map((l) => l.trim()).filter(Boolean)
RECURSIVE TrimmedNonEmpty(_)
TrimmedNonEmpty(ls) ==
    IF ls = <<>> THEN <<>>
    ELSE (IF trim(Head(ls)) # <<>> THEN <<trim(Head(ls))>> ELSE <<>>)
         \o TrimmedNonEmpty(Tail(ls))

\* the lines the plain-text fallback iterates over: the body is stripped
\* first and split afterwards
FallbackLines(raw) == TrimmedNonEmpty(SplitLines(stripHtml(raw)))

\* position of the first character of line satisfying IsDash, 0 if none
FirstDash(line, i) == MinPos({k \in i..Len(line) : IsDash(line[k])})

\* line.match(/^(.*?)\s*[-]\s*(.*?)$/): lazy group 1 ends before the first
\* dash; the groups are trimmed by the caller
DashMatch(line) ==
    LET d == FirstDash(line, 1)
    IN  IF d = 0 THEN NoMatch
        ELSE [ok |-> TRUE, artist |-> trim(SubSeq(line, 1, d - 1)),
              album |-> trim(Drop(line, d))]

\* position of the blank that precedes the first ' by ' of line, 0 if none
FirstBy(line, i) ==
    MinPos({k \in i..(Len(line) - 3) :
              IsSpace(line[k]) /\ HasAtCI(line, k + 1, <<"b", "y">>) /\ IsSpace(line[k + 3])})

\* line.match(/^(.*?)\s+by\s+(.*?)$/i)
ByMatch(line) ==
    LET q == FirstBy(line, 1)
    IN  IF q = 0 THEN NoMatch
        ELSE [ok |-> TRUE, album |-> trim(SubSeq(line, 1, q - 1)),
              artist |-> trim(Drop(line, q + 3))]

\* one iteration of the fallback loop: the dash pattern first, then 'by'
FallbackLine(ps, line) ==
    LET m1 == DashMatch(line)
        m2 == ByMatch(line)
    IN  IF m1.ok THEN <<CallOf(ps, m1.artist, m1.album)>>
        ELSE IF m2.ok THEN <<CallOf(ps, m2.artist, m2.album)>>
        ELSE <<>>

\* pairs.slice(0, 10)
Slice10(ps) == SubSeq(ps, 1, IF Len(ps) < MaxPairs THEN Len(ps) ELSE MaxPairs)

-----------------------------------------------------------------------------
(* The raw body and its parse                                              *)
(*                                                                         *)
(* A body is null (a missing argument), plain text, or markup.  Markup is  *)
(* kept as the document it parses to; Render gives the source text of that *)
(* document, which is what stripHtml sees when the fallback runs.          *)

RenderItem(it) ==
    LET open == IF it.inP THEN <<"<","p",">">> ELSE <<>>
        close == IF it.inP THEN <<"<","/","p",">">> ELSE <<>>
    IN  CASE it.t = "a" ->
               open \o <<"<","s","t","r","o","n","g",">">>
                    \o (IF it.rel THEN <<"<","a"," ","r","e","l","=","\"","n","o","o","p","e","n","e","r","\"",">">> ELSE <<"<","a",">">>)
                    \o it.text \o <<"<","/","a",">">> \o <<"<","/","s","t","r","o","n","g",">">> \o close
          [] it.t = "em" -> open \o <<"<","e","m",">">> \o it.text \o <<"<","/","e","m",">">> \o close
          [] it.t = "img" ->
               <<"<","i","m","g">>
               \o (IF it.alt # None THEN <<" ","a","l","t","=","\"">> \o it.alt \o <<"\"">> ELSE <<>>)
               \o (IF it.title # None THEN <<" ","t","i","t","l","e","=","\"">> \o it.title \o <<"\"">> ELSE <<>>)
               \o <<">">>

RECURSIVE RenderItems(_)
RenderItems(its) ==
    IF its = <<>> THEN <<>> ELSE RenderItem(Head(its)) \o RenderItems(Tail(its))

RenderNode(node) ==
    CASE node.kind = "block" ->
           <<"<","t","a","b","l","e"," ","c","l","a","s","s","=","\"","t","e","x","t","_","b","l","o","c","k"," ","b","l","o","c","k","-","2","\"",">","<","t","r",">","<","t","d",">">>
           \o RenderItems(node.items) \o <<"<","/","t","d",">","<","/","t","r",">","<","/","t","a","b","l","e",">">>
      [] node.kind = "table" ->
           <<"<","t","a","b","l","e",">","<","t","r",">","<","t","d",">">>
           \o RenderItems(node.items) \o <<"<","/","t","d",">","<","/","t","r",">","<","/","t","a","b","l","e",">">>
      [] node.kind = "div" -> <<"<","d","i","v",">">> \o RenderItems(node.items) \o <<"<","/","d","i","v",">">>
      [] node.kind = "item" -> RenderItems(node.items)

RECURSIVE Render(_)
Render(doc) ==
    IF doc = <<>> THEN <<>> ELSE RenderNode(Head(doc)) \o <<"\n">> \o Render(Tail(doc))

NullBody == [kind |-> "null", dom |-> <<>>, text |-> <<>>]
TextBody(text) == [kind |-> "text", dom |-> <<>>, text |-> text]
HtmlBody(doc) == [kind |-> "html", dom |-> doc, text |-> <<>>]

\* loadHtml(rawBody): the document the strategies traverse; plain text holds
\* no element
Dom(b) == IF b.kind = "html" THEN b.dom ELSE <<>>

\* loadHtml throws on a body that is no string
LoadThrows(b) == b.kind = "null"

\* the string stripHtml(rawBody) works on; stripHtml(null) is ''
RawText(b) ==
    CASE b.kind = "html" -> Render(b.dom)
      [] b.kind = "text" -> b.text
      [] b.kind = "null" -> <<>>

-----------------------------------------------------------------------------
(* The loop bodies of extractAlbumArtistPairs, and the whole call          *)

PrimaryCall_swapped(doc, ps, k) ==
    LET its == doc[Blocks(doc)[k]].items
    IN  [artist |-> BlockAlbum(its), album |-> BlockArtist(its), before |-> ps,
         after |-> addPair(ps, BlockAlbum(its), BlockArtist(its))]

\* the addPair call of the k-th card
PrimaryCall(doc, ps, k) ==
    LET its == doc[Blocks(doc)[k]].items
    IN  CallOf(ps, BlockArtist(its), BlockAlbum(its))

\* the addPair call of the k-th strong link
SecondaryCall(doc, ps, k) ==
    LET at == StrongLinks(doc)[k]
    IN  CallOf(ps, trim(doc[at[1]].items[at[2]].text), findNearestEm(doc, at[1]))

\* the addPair call of the k-th image text, if it matches
ImageCall(doc, ps, k) ==
    LET m == ImgMatch(ImageCandidates(doc)[k])
    IN  IF m.ok THEN <<CallOf(ps, m.artist, m.album)>> ELSE <<>>

RECURSIVE RunPrimary(_, _, _)
RunPrimary(doc, ps, k) ==
    IF k > Len(Blocks(doc)) THEN ps
    ELSE RunPrimary(doc, IF Full(ps) THEN ps
                         ELSE PrimaryCall(doc, ps, k).after, k + 1)

RECURSIVE RunSecondary(_, _, _)
RunSecondary(doc, ps, k) ==
    IF k > Len(StrongLinks(doc)) THEN ps
    ELSE RunSecondary(doc, IF Full(ps) THEN ps
                           ELSE SecondaryCall(doc, ps, k).after, k + 1)

RECURSIVE RunImages(_, _, _)
RunImages(doc, ps, k) ==
    IF k > Len(ImageCandidates(doc)) THEN ps
    ELSE LET cs == ImageCall(doc, ps, k)
         IN  RunImages(doc, IF Full(ps) \/ cs = <<>> THEN ps
                            ELSE cs[1].after, k + 1)

RECURSIVE RunFallback(_, _, _)
RunFallback(lines, ps, k) ==
    IF Full(ps) \/ k > Len(lines) THEN Slice10(ps)
    ELSE LET cs == FallbackLine(ps, lines[k])
         IN  RunFallback(lines, IF cs = <<>> THEN ps ELSE cs[1].after, k + 1)

CatchTarget_rethrow(im) == "raise"

\* where control goes when the try block throws: the legacy catch falls
\* through to the plain-text fallback, the modular catch logs and returns
CatchTarget(im) == IF im = "legacy" THEN "fallback" ELSE "return"

\* where control goes after the three markup strategies
AfterTry(im, ps) ==
    IF im = "legacy" THEN (IF Len(ps) >= 1 THEN "return" ELSE "fallback")
    ELSE "return"

\* the value of the return statement after the markup strategies
ReturnValue(im, ps) == IF im = "legacy" THEN Slice10(ps) ELSE ps

\* mutant: the generic strategy runs only when the cards gave nothing
AfterPrimary_onlyIfEmpty(ps) == IF Len(ps) = 0 THEN "s2" ELSE "after"

\* if (pairs.length < 10) { secondary }  if (pairs.length < 10) { images }
AfterPrimary(ps) == IF Len(ps) < MaxPairs THEN "s2" ELSE "after"
AfterSecondary(ps) == IF Len(ps) < MaxPairs THEN "s3" ELSE "after"

\* the pairs the markup strategies collect
MarkupPairs(doc) ==
    LET p1 == RunPrimary(doc, <<>>, 1)
        p2 == IF AfterPrimary(p1) = "s2" THEN RunSecondary(doc, p1, 1) ELSE p1
    IN  IF AfterPrimary(p1) = "s2" /\ AfterSecondary(p2) = "s3"
        THEN RunImages(doc, p2, 1) ELSE p2

\* whether a call of extractAlbumArtistPairs(rawBody) ends with an exception
ExtractRaises(im, b) == LoadThrows(b) /\ CatchTarget(im) \notin {"return", "fallback"}

\* the value a call of extractAlbumArtistPairs(rawBody) returns
extractAlbumArtistPairs(im, b) ==
    IF LoadThrows(b)
    THEN (IF CatchTarget(im) = "fallback"
          THEN RunFallback(FallbackLines(RawText(b)), <<>>, 1) ELSE <<>>)
    ELSE LET ps == MarkupPairs(Dom(b))
         IN  IF AfterTry(im, ps) = "return" THEN ReturnValue(im, ps)
             ELSE RunFallback(FallbackLines(RawText(b)), ps, 1)

-----------------------------------------------------------------------------
(* Inputs                                                                  *)

MaxBlocks == 11
MaxLines == 11
MaxPieces == 3

Letters == <<"a","b","c","d","e","f","g","h","i","j","k","l","m","n","o","p">>

StdArtist(i) == <<"R", Letters[i]>>
StdAlbum(i) == <<"L", Letters[i]>>

\* the newsletter card: <p><strong><a rel="noopener">artist</a></strong></p>
\* <p><em>album</em></p> inside table.text_block.block-2
StdBlock(i) ==
    Node("block", <<Link(TRUE, TRUE, StdArtist(i)), Em(TRUE, StdAlbum(i))>>)

StdBlocks(n) == [i \in 1..n |-> StdBlock(i)]

StdPairs(n) == [i \in 1..n |-> [artist |-> StdArtist(i), album |-> StdAlbum(i)]]

\* other document fragments
Fragments == {
    <<>>,
    \* card 1 again in another casing, padded with blanks
    <<Node("block", <<Link(TRUE, TRUE, <<" ","r","a"," ">>), Em(TRUE, <<"L","A">>)>>)>>,
    \* a card whose artist is one character long
    <<Node("block", <<Link(TRUE, TRUE, <<"R">>), Em(TRUE, <<"L","x">>)>>)>>,
    \* a card whose album is one character long
    <<Node("block", <<Link(TRUE, TRUE, <<"R","x">>), Em(TRUE, <<" ","L"," ">>)>>)>>,
    \* a card with an em before the artist paragraph
    <<Node("block", <<Em(TRUE, <<"B","n">>), Link(TRUE, TRUE, <<"R","x">>),
                      Em(TRUE, <<"L","x">>)>>)>>,
    \* a card without the rel link and without a following paragraph
    <<Node("block", <<Link(FALSE, FALSE, <<"R","y">>), Em(FALSE, <<"L","y">>)>>)>>,
    \* a card with empty texts
    <<Node("block", <<Link(TRUE, TRUE, <<" ">>), Em(TRUE, <<>>)>>)>>,
    \* a link and an em in a div
    <<Node("div", <<Link(FALSE, FALSE, <<"R","z">>), Em(FALSE, <<"L","z">>)>>)>>,
    \* a link in a plain table, the em in the next table
    <<Node("table", <<Link(TRUE, FALSE, <<"R","z">>)>>),
      Node("table", <<Em(TRUE, <<"L","z">>)>>)>>,
    \* a link in a div, the em in a paragraph after the div
    <<Node("div", <<Link(FALSE, FALSE, <<"R","w">>)>>),
      Node("item", <<Em(TRUE, <<"L","w">>)>>)>>,
    \* a link in a div, the em four siblings after the div
    <<Node("div", <<Link(FALSE, FALSE, <<"R","q">>)>>),
      Node("item", <<Img(None, None)>>), Node("item", <<Img(None, None)>>),
      Node("item", <<Img(None, None)>>), Node("item", <<Em(TRUE, <<"L","q">>)>>)>>,
    \* a link in a div, the em five siblings after the div
    <<Node("div", <<Link(FALSE, FALSE, <<"R","q">>)>>),
      Node("item", <<Img(None, None)>>), Node("item", <<Img(None, None)>>),
      Node("item", <<Img(None, None)>>), Node("item", <<Img(None, None)>>),
      Node("item", <<Em(TRUE, <<"L","q">>)>>)>>,
    \* <strong><a>..</a></strong><em>..</em> directly in the body
    <<Node("item", <<Link(FALSE, FALSE, <<"R","v">>)>>),
      Node("item", <<Em(FALSE, <<"L","v">>)>>)>>,
    \* images
    <<Node("item", <<Img(<<"R","u"," ","-"," ","L","u">>, None)>>)>>,
    <<Node("item", <<Img(<<"x">>, <<"R","t",":"," ","L","t">>)>>)>>,
    <<Node("item", <<Img(<<"R","a","-","L","a">>, <<"r","A"," ",":"," ","l","A">>)>>)>>,
    <<Node("item", <<Img(<<"R","s",EnDash,"L","s">>, <<"R","s","-","L","r">>)>>)>>,
    \* paragraphs whose text alone names a pair
    <<Node("item", <<Em(TRUE, <<"R","s"," ","-"," ","L","s">>)>>)>>,
    <<Node("item", <<Em(TRUE, <<"L","r"," ","b","y"," ","R","r">>)>>)>> }

\* the documents: the cards 1..n with one fragment before or after them
Documents ==
    {f \o StdBlocks(n) : f \in Fragments, n \in 0..MaxBlocks}
    \cup {StdBlocks(n) \o f : f \in Fragments, n \in 0..MaxBlocks}

\* one line of a plain-text body
TextLine(fmt, i) ==
    CASE fmt = "dash" -> StdArtist(i) \o <<" ","-"," ">> \o StdAlbum(i)
      [] fmt = "by" -> StdAlbum(i) \o <<" ","b","y"," ">> \o StdArtist(i)
      [] fmt = "none" -> StdArtist(i) \o <<" ">> \o StdAlbum(i)

RECURSIVE TextOf(_, _, _)
TextOf(fmt, i, k) ==
    IF i > k THEN <<>>
    ELSE TextLine(fmt, i) \o (IF i < k THEN <<"\n">> ELSE <<>>) \o TextOf(fmt, i + 1, k)

\* the plain-text bodies: k lines of one format
TextBodies == {TextBody(TextOf(fmt, 1, k)) : fmt \in {"dash", "by", "none"}, k \in 0..MaxLines}

Bodies == {NullBody} \cup TextBodies \cup {HtmlBody(d) : d \in Documents}

\* the pieces the inputs of stripHtml are made of
Pieces == {
    <<"<","b",">">>, <<"&","l","t",";">>, <<"&","g","t",";">>, <<"&","a","m","p",";">>, <<"l","t",";">>, <<"x">>, <<" ">>, <<"\n">>,
    <<"<">>, <<">">>, <<"&","n","b","s","p",";">>,
    <<"<","S","t","y","l","e",">">>, <<"<","/","s","t","y","l","e",">">> }

RECURSIVE Flatten(_)
Flatten(ss) == IF ss = <<>> THEN <<>> ELSE Head(ss) \o Flatten(Tail(ss))

StripInputs ==
    UNION {{Flatten(ps) : ps \in [1..n -> Pieces]} : n \in 0..MaxPieces}

-----------------------------------------------------------------------------
(* stripHtml applied once and twice                                        *)

stripVars == <<sInput, sOnce, sTwice>>
extractVars == <<body, pairs, pc, idx, calls, threw, outcome, result>>

syncVars == <<mailbox, unknownAlbums, stuckUids, playlists, emails, monthToPairs,
              successfulEmailUids, spc, mailIdx, pairIdx, playlistName, monthPairs,
              existingUris, toAdd, requests, moved, syncOutcome, credentials,
              catalogQuirk, run, completedRuns, faults>>

searchVars == <<qAlbum, qArtist, candidates, cand, issued, answers, searchResult>>

trashVars == <<listing, capabilities, refusals, refusedUids, tUids, tTarget, dryRun, tpc,
               trashFolder, tIdx, successCount, imapLog, moveResults, tResult>>
retryVars == <<maxRetries, baseDelayMs, attempt, fnCalls, waits, retryState, retryValue>>

mimeVars == <<mimeInput, mimeOutput>>

\* the variables of the utility functions
utilVars == <<searchVars, trashVars, retryVars, mimeVars>>

StripIdle == sInput = <<>> /\ sOnce = NoStr /\ sTwice = NoStr

SearchIdle ==
    /\ qAlbum = <<>> /\ qArtist = <<>> /\ candidates = <<>> /\ cand = 0
    /\ issued = <<>> /\ answers = <<>> /\ searchResult = "idle"

TrashIdle ==
    /\ listing = <<>> /\ capabilities = {} /\ refusals = {} /\ refusedUids = {}
    /\ tUids = [given |-> FALSE, items |-> <<>>] /\ tTarget = <<>> /\ dryRun = FALSE /\ tpc = "idle"
    /\ trashFolder = <<>> /\ tIdx = 0 /\ successCount = 0 /\ imapLog = <<>>
    /\ moveResults = <<>> /\ tResult = "none"

RetryIdle ==
    /\ maxRetries = 0 /\ baseDelayMs = 0 /\ attempt = 0 /\ fnCalls = <<>>
    /\ waits = <<>> /\ retryState = "idle" /\ retryValue = 0

MimeIdle == mimeInput = <<>> /\ mimeOutput = NoStr

UtilIdle == SearchIdle /\ TrashIdle /\ RetryIdle /\ MimeIdle

ExtractIdle ==
    /\ body = NullBody /\ pairs = <<>> /\ pc = "idle" /\ idx = 0 /\ calls = <<>>
    /\ threw = FALSE /\ outcome = "running" /\ result = <<>>

SyncIdle ==
    /\ mailbox = <<>> /\ unknownAlbums = {} /\ stuckUids = {} /\ playlists = <<>>
    /\ emails = <<>> /\ monthToPairs = <<>> /\ successfulEmailUids = <<>>
    /\ spc = "idle" /\ mailIdx = 0 /\ pairIdx = 0 /\ playlistName = <<>>
    /\ monthPairs = <<>> /\ existingUris = <<>> /\ toAdd = <<>> /\ requests = <<>>
    /\ moved = <<>> /\ syncOutcome = "running"
    /\ credentials = "ok" /\ catalogQuirk = "none" /\ run = 0 /\ completedRuns = 0
    /\ faults = <<>>

InitStrip ==
    /\ impl \in Impls
    /\ UtilIdle
    /\ sInput \in StripInputs
    /\ sOnce = NoStr
    /\ sTwice = NoStr
    /\ ExtractIdle
    /\ SyncIdle

StripOnce ==
    /\ sOnce = NoStr
    /\ sOnce' = stripHtml(sInput)
    /\ UNCHANGED <<syncVars, utilVars, impl, sInput, sTwice, extractVars>>

StripTwice ==
    /\ sOnce # NoStr
    /\ sTwice = NoStr
    /\ sTwice' = stripHtml(sOnce)
    /\ UNCHANGED <<syncVars, utilVars, impl, sInput, sOnce, extractVars>>

NextStrip == StripOnce \/ StripTwice

SpecStrip == InitStrip /\ [][NextStrip]_vars

-----------------------------------------------------------------------------
(* extractAlbumArtistPairs, one loop iteration per step                    *)

InitExtract ==
    /\ impl \in Impls
    /\ UtilIdle
    /\ StripIdle
    /\ body \in Bodies
    /\ pairs = <<>>
    /\ pc = "load"
    /\ idx = 0
    /\ calls = <<>>
    /\ threw = FALSE
    /\ outcome = "running"
    /\ result = <<>>
    /\ SyncIdle

Goto(target) ==
    CASE target = "return" ->
           /\ pc' = "done" /\ outcome' = "returned" /\ result' = ReturnValue(impl, pairs)
           /\ idx' = 0
      [] target = "raise" ->
           /\ pc' = "done" /\ outcome' = "raised" /\ UNCHANGED result /\ idx' = 0
      [] OTHER ->
           /\ pc' = target /\ idx' = 1 /\ UNCHANGED <<outcome, result>>

\* const $ = loadHtml(rawBody, ...)
Load ==
    /\ pc = "load"
    /\ IF LoadThrows(body)
       THEN /\ threw' = TRUE
            /\ IF CatchTarget(impl) = "return"
               THEN /\ pc' = "done" /\ outcome' = "returned" /\ result' = pairs /\ idx' = 0
               ELSE Goto(CatchTarget(impl))
       ELSE /\ Goto("s1")
            /\ UNCHANGED threw
    /\ UNCHANGED <<syncVars, utilVars, impl, stripVars, body, pairs, calls>>

\* the callback of $('table.text_block.block-2').each
PrimaryStep ==
    /\ pc = "s1"
    /\ idx <= Len(Blocks(Dom(body)))
    /\ LET c == PrimaryCall(Dom(body), pairs, idx)
       IN  IF Full(pairs)
           THEN UNCHANGED <<pairs, calls>>
           ELSE pairs' = c.after /\ calls' = Append(calls, c)
    /\ idx' = idx + 1
    /\ UNCHANGED <<syncVars, utilVars, impl, stripVars, body, pc, threw, outcome, result>>

PrimaryEnd ==
    /\ pc = "s1"
    /\ idx > Len(Blocks(Dom(body)))
    /\ Goto(IF AfterPrimary(pairs) = "after" THEN AfterTry(impl, pairs)
            ELSE AfterPrimary(pairs))
    /\ UNCHANGED <<syncVars, utilVars, impl, stripVars, body, pairs, calls, threw>>

\* the callback of $('strong a').each
SecondaryStep ==
    /\ pc = "s2"
    /\ idx <= Len(StrongLinks(Dom(body)))
    /\ LET c == SecondaryCall(Dom(body), pairs, idx)
       IN  IF Full(pairs)
           THEN UNCHANGED <<pairs, calls>>
           ELSE pairs' = c.after /\ calls' = Append(calls, c)
    /\ idx' = idx + 1
    /\ UNCHANGED <<syncVars, utilVars, impl, stripVars, body, pc, threw, outcome, result>>

SecondaryEnd ==
    /\ pc = "s2"
    /\ idx > Len(StrongLinks(Dom(body)))
    /\ Goto(IF AfterSecondary(pairs) = "after" THEN AfterTry(impl, pairs)
            ELSE AfterSecondary(pairs))
    /\ UNCHANGED <<syncVars, utilVars, impl, stripVars, body, pairs, calls, threw>>

\* one candidate text of the callback of $('img[alt], img[title]').each
ImageStep ==
    /\ pc = "s3"
    /\ idx <= Len(ImageCandidates(Dom(body)))
    /\ LET cs == ImageCall(Dom(body), pairs, idx)
       IN  IF Full(pairs) \/ cs = <<>>
           THEN UNCHANGED <<pairs, calls>>
           ELSE pairs' = cs[1].after /\ calls' = Append(calls, cs[1])
    /\ idx' = idx + 1
    /\ UNCHANGED <<syncVars, utilVars, impl, stripVars, body, pc, threw, outcome, result>>

ImageEnd ==
    /\ pc = "s3"
    /\ idx > Len(ImageCandidates(Dom(body)))
    /\ Goto(AfterTry(impl, pairs))
    /\ UNCHANGED <<syncVars, utilVars, impl, stripVars, body, pairs, calls, threw>>

\* one iteration of for (const line of lines)
FallbackStep ==
    /\ pc = "fallback"
    /\ ~Full(pairs)
    /\ idx <= Len(FallbackLines(RawText(body)))
    /\ LET cs == FallbackLine(pairs, FallbackLines(RawText(body))[idx])
       IN  IF cs = <<>> THEN UNCHANGED <<pairs, calls>>
           ELSE pairs' = cs[1].after /\ calls' = Append(calls, cs[1])
    /\ idx' = idx + 1
    /\ UNCHANGED <<syncVars, utilVars, impl, stripVars, body, pc, threw, outcome, result>>

\* return pairs.slice(0, 10)
FallbackEnd ==
    /\ pc = "fallback"
    /\ (Full(pairs) \/ idx > Len(FallbackLines(RawText(body))))
    /\ pc' = "done"
    /\ outcome' = "returned"
    /\ result' = Slice10(pairs)
    /\ idx' = 0
    /\ UNCHANGED <<syncVars, utilVars, impl, stripVars, body, pairs, calls, threw>>

NextExtract ==
    \/ Load
    \/ PrimaryStep
    \/ PrimaryEnd
    \/ SecondaryStep
    \/ SecondaryEnd
    \/ ImageStep
    \/ ImageEnd
    \/ FallbackStep
    \/ FallbackEnd

SpecExtract == InitExtract /\ [][NextExtract]_vars

\* the step machine and the whole-call operator agree
StepsAgree ==
    pc = "done" =>
        /\ (outcome = "raised") = ExtractRaises(impl, body)
        /\ outcome = "returned" => result = extractAlbumArtistPairs(impl, body)

-----------------------------------------------------------------------------
(* Properties of extractAlbumArtistPairs and stripHtml                     *)

Min(a, b) == IF a < b THEN a ELSE b

\* C1: the list never holds more than 10 pairs: not after any addPair call,
\* not in any intermediate state, and not in the returned value, however
\* many candidates the strategies find.
C1_AtMostTenPairs ==
    /\ Len(pairs) <= 10
    /\ \A k \in 1..Len(calls) : Len(calls[k].after) <= 10
    /\ outcome = "returned" => Len(result) <= 10

\* a document with more than 10 cards was cut at 10
C1_Witness ==
    /\ pc = "done"
    /\ Len(Blocks(Dom(body))) > 10
    /\ Len(calls) = 10
    /\ Len(result) = 10

\* the trimmed arguments of a call and their lower-cased key, computed
\* independently of the model's Key
CallArtist(c) == trim(OrEmpty(c.artist))
CallAlbum(c) == trim(OrEmpty(c.album))
CallValid(c) == Len(CallArtist(c)) >= 2 /\ Len(CallAlbum(c)) >= 2
SameKey(a1, b1, a2, b2) ==
    toLowerCase(a1) = toLowerCase(a2) /\ toLowerCase(b1) = toLowerCase(b2)

\* C2: no two entries of the list share the lower-cased key artist::album;
\* each entry is the first valid submission of its key, trimmed and in its
\* original casing; a submission whose key is already present leaves the
\* list unchanged.
C2_FirstSubmissionWins ==
    /\ \A i, j \in 1..Len(pairs) :
         i # j => ~SameKey(pairs[i].artist, pairs[i].album, pairs[j].artist, pairs[j].album)
    /\ \A i \in 1..Len(pairs) :
         \E k \in 1..Len(calls) :
            /\ CallValid(calls[k])
            /\ CallArtist(calls[k]) = pairs[i].artist
            /\ CallAlbum(calls[k]) = pairs[i].album
            /\ \A m \in 1..(k - 1) :
                 ~(CallValid(calls[m]) /\ SameKey(CallArtist(calls[m]), CallAlbum(calls[m]),
                                                 pairs[i].artist, pairs[i].album))
    /\ \A k \in 1..Len(calls) :
         (\E i \in 1..Len(calls[k].before) :
             SameKey(calls[k].before[i].artist, calls[k].before[i].album,
                     CallArtist(calls[k]), CallAlbum(calls[k])))
         => calls[k].after = calls[k].before

\* a valid submission that differs from a retained entry only in casing was
\* made and dropped
C2_Witness ==
    \E k \in 1..Len(calls) :
       /\ CallValid(calls[k])
       /\ calls[k].after = calls[k].before
       /\ \E i \in 1..Len(pairs) :
            /\ SameKey(pairs[i].artist, pairs[i].album, CallArtist(calls[k]), CallAlbum(calls[k]))
            /\ <<pairs[i].artist, pairs[i].album>> # <<CallArtist(calls[k]), CallAlbum(calls[k])>>

\* C3: a submission whose artist or album trims to fewer than 2 characters
\* leaves the list unchanged, and every pair of the list and of the returned
\* value has both components of trimmed length at least 2.
C3_ShortNamesRejected ==
    /\ \A k \in 1..Len(calls) : ~CallValid(calls[k]) => calls[k].after = calls[k].before
    /\ \A i \in 1..Len(pairs) :
         Len(trim(pairs[i].artist)) >= 2 /\ Len(trim(pairs[i].album)) >= 2
    /\ \A i \in 1..Len(result) :
         Len(trim(result[i].artist)) >= 2 /\ Len(trim(result[i].album)) >= 2

\* a submission with a non-empty one-character album was made and rejected
C3_Witness ==
    \E k \in 1..Len(calls) :
       /\ Len(CallArtist(calls[k])) >= 2
       /\ Len(CallAlbum(calls[k])) = 1
       /\ calls[k].after = calls[k].before

\* C4: a call never ends with an exception: once it is over it has returned
\* a list, and for the empty document <html></html> that list is empty.
C4_NeverRaises ==
    /\ outcome # "raised"
    /\ pc = "done" => outcome = "returned"
    /\ (pc = "done" /\ body = HtmlBody(<<>>)) => result = <<>>

\* the markup parse threw and the call still returned
C4_Witness == pc = "done" /\ threw /\ outcome = "returned" /\ result = <<>>

\* C5: a document made of n standard cards yields exactly the pairs of its
\* first min(n, 10) cards, in document order.
C5_OnePairPerBlock ==
    \A n \in 0..MaxBlocks :
       (pc = "done" /\ body = HtmlBody(StdBlocks(n))) => result = StdPairs(Min(n, 10))

\* a document of more than 10 cards has been processed to the end
C5_Witness ==
    /\ pc = "done"
    /\ body = HtmlBody(StdBlocks(11))
    /\ result = StdPairs(10)

\* C6 (as claimed): a plain-text body of k lines 'Artist - Album' or
\* 'Album by Artist' yields the k pairs of its lines, capped at 10.
C6_OnePairPerLine ==
    \A k \in 0..MaxLines : \A fmt \in {"dash", "by"} :
       (pc = "done" /\ body = TextBody(TextOf(fmt, 1, k))) => result = StdPairs(Min(k, 10))

\* a string a further pass leaves alone: no tag-shaped run, no entity
HasTag(s) ==
    \E i, j \in 1..Len(s) :
       /\ s[i] = "<" /\ s[j] = ">" /\ j > i + 1
       /\ \A k \in (i + 1)..(j - 1) : s[k] # ">"
HasEntity(s) == \E e \in 1..Len(Entities) : IndexFrom(s, 1, Entities[e].entity) # 0

\* C7 (as claimed): stripHtml(stripHtml(x)) = stripHtml(x) for every x.
C7_Idempotent == sTwice # NoStr => sTwice = sOnce

\* C7 (amended): stripHtml(stripHtml(x)) = stripHtml(x) whenever stripHtml(x)
\* holds no tag-shaped run <...> and none of the six entities.
C7_IdempotentOnPlainOutput ==
    (sTwice # NoStr /\ ~HasTag(sOnce) /\ ~HasEntity(sOnce)) => sTwice = sOnce

\* an input with markup was stripped to non-empty plain text, twice
C7_Witness ==
    /\ sTwice # NoStr
    /\ HasTag(sInput) /\ HasEntity(sInput)
    /\ ~HasTag(sOnce) /\ ~HasEntity(sOnce)
    /\ sOnce # <<>>
    /\ sTwice = sOnce

-----------------------------------------------------------------------------
(* The sync run: mailbox, aggregation into month buckets, playlists, trash *)

EXPECTED_FROM == <<
    "n", "e", "w", "s", "l", "e", "t", "t", "e", "r", "@", "p", "i", "t",
    "c", "h", "f", "o", "r", "k", ".", "c", "o", "m" >>

EXPECTED_SUBJECT == <<
    "1", "0", " ", "B", "e", "s", "t", " ", "R", "e", "v", "i", "e", "w",
    "e", "d", " ", "A", "l", "b", "u", "m", "s", " ", "o", "f", " ", "t",
    "h", "e", " ", "W", "e", "e", "k" >>

PLAYLIST_PREFIX == <<
    "P", "i", "t", "c", "h", "f", "o", "r", "k", " ", "B", "e", "s", "t",
    " ", "A", "l", "b", "u", "m", "s" >>

\* a UID as JavaScript holds it: an integer, or null
IntUid(n) == [kind |-> "int", n |-> n]
NullUid == [kind |-> "null", n |-> 0]

NumberIsInteger(uid) == uid.kind = "int"

\* a Date, as far as formatMonthYYYYMM reads it: getFullYear(), getMonth()
DateOf(year, month) == [year |-> year, month |-> month]

DecimalDigits == <<"0", "1", "2", "3", "4", "5", "6", "7", "8", "9">>

\* String(n) for a natural number
RECURSIVE NatToString(_)
NatToString(n) ==
    IF n < 10 THEN <<DecimalDigits[n + 1]>>
    ELSE NatToString(n \div 10) \o <<DecimalDigits[(n % 10) + 1]>>

\* s.padStart(width, ch)
RECURSIVE padStart(_, _, _)
padStart(s, width, ch) == IF Len(s) >= width THEN s ELSE padStart(<<ch>> \o s, width, ch)

formatMonthYYYYMM(date) ==
    NatToString(date.year) \o <<"-">> \o padStart(NatToString(date.month + 1), 2, "0")

\* the variant that forgets the key set, so that nothing is ever a duplicate
RECURSIVE uniqueBy_keepAll(_, _)
uniqueBy_keepAll(array, done) ==
    IF array = <<>> THEN done ELSE uniqueBy_keepAll(Tail(array), Append(done, Head(array)))

\* uniqueBy(array, p => lower(artist)::lower(album)); done is the local result,
\* whose keys are the local set seen
RECURSIVE uniqueBy(_, _)
uniqueBy(array, done) ==
    IF array = <<>> THEN done
    ELSE uniqueBy(Tail(array),
                  IF HasKey(done, PairKey(Head(array))) THEN done
                  ELSE Append(done, Head(array)))

\* a message of the mailbox as the server sends it: the UID attribute, the
\* From, Subject and Date header fields, and the text part
Message(uid, from, subject, date, b) ==
    [uid |-> uid, from |-> from, subject |-> subject, date |-> date, body |-> b]

\* attrs.uid as a number that is no integer, with its integer part, and as a
\* value that is no number
FracUid(n) == [kind |-> "frac", n |-> n]
TextUid == [kind |-> "text", n |-> 0]

\* agg.uid = attrs && attrs.uid ? attrs.uid : agg.uid, then validUid: an
\* integer stays, another number is truncated, everything else is null
ValidUid(raw) ==
    IF raw.kind = "int" /\ raw.n # 0 THEN raw
    ELSE IF raw.kind = "frac" THEN IntUid(raw.n)
    ELSE NullUid

\* what fetchAllMatchingEmails pushes for one message: the header fields
\* are decoded
FetchedMail(msg) ==
    [uid |-> ValidUid(msg.uid),
     from |-> decodeMimeEncodedWords(msg.from),
     subject |-> decodeMimeEncodedWords(msg.subject),
     date |-> msg.date,
     body |-> msg.body]

FetchedMails(box) == [k \in 1..Len(box) |-> FetchedMail(box[k])]

\* String(mail.from).toLowerCase().includes(EXPECTED_FROM)
SenderOk(mail) == IndexFrom(toLowerCase(mail.from), 1, EXPECTED_FROM) # 0

\* decodeMimeEncodedWords(mail.subject).trim() === EXPECTED_SUBJECT
SubjectOk(mail) == trim(decodeMimeEncodedWords(mail.subject)) = EXPECTED_SUBJECT

\* the guard at the top of the loop over the e-mails: the single-file script
\* checks sender and subject, the sync service the sender only
PassesCheck(im, mail) ==
    IF im = "legacy" THEN SenderOk(mail) /\ SubjectOk(mail) ELSE SenderOk(mail)

\* uniqueBy(extractAlbumArtistPairs(mail.body), ...)
MailPairs(im, mail) == uniqueBy(extractAlbumArtistPairs(im, mail.body), <<>>)

\* Map: the entries in insertion order
MapHas(m, key) == \E k \in 1..Len(m) : m[k].month = key

MapGet(m, key) ==
    IF MapHas(m, key) THEN m[CHOOSE k \in 1..Len(m) : m[k].month = key].pairs ELSE <<>>

MapSet(m, key, value) ==
    IF MapHas(m, key)
    THEN [k \in 1..Len(m) |-> IF m[k].month = key THEN [month |-> key, pairs |-> value]
                                                   ELSE m[k]]
    ELSE Append(m, [month |-> key, pairs |-> value])

\* Set.add, the elements in insertion order
SetAdd(s, x) == IF \E k \in 1..Len(s) : s[k] = x THEN s ELSE Append(s, x)

\* monthToPairs after the loop body has run for mail, ps being the
\* deduplicated pairs of its body
Bucketed(im, m, mail, ps) ==
    IF PassesCheck(im, mail) /\ Len(ps) > 0
    THEN MapSet(m, formatMonthYYYYMM(mail.date), MapGet(m, formatMonthYYYYMM(mail.date)) \o ps)
    ELSE m

\* successfulEmailUids after the loop body has run for mail
Recorded(im, uids, mail, ps) ==
    IF PassesCheck(im, mail) /\ Len(ps) > 0 /\ NumberIsInteger(mail.uid)
    THEN SetAdd(uids, mail.uid)
    ELSE uids

\* the variant of the early exit that never ends the run
NoBuckets_never(m) == FALSE

\* monthToPairs.size === 0
NoBuckets(m) == Len(m) = 0

\* ---- the catalog service and the mailbox server ----

\* a call of the playlist service, or the token refresh
Req(op, name, artist, album, uris) ==
    [op |-> op, name |-> name, artist |-> artist, album |-> album, uris |-> uris]

\* searchAlbum cleans its arguments: stripHtml(x).toLowerCase().trim()
Clean(x) == trim(toLowerCase(stripHtml(x)))

\* the catalog's entry for an album, found whatever the casing of the query
CatalogKey(artist, album) == Clean(artist) \o <<":", ":">> \o Clean(album)

\* the URI of the first track of the album found
TrackUri(artist, album) == <<"t", "r", "a", "c", "k", ":">> \o CatalogKey(artist, album)

PlaylistName(monthStr) == PLAYLIST_PREFIX \o <<" ">> \o monthStr

\* findPlaylistByName: the playlist of that name, if the user has one
HasPlaylist(lists, name) == \E k \in 1..Len(lists) : lists[k].name = name

\* an item of a playlist: the track and the time the catalog added it
Item(uri, addedAt) == [uri |-> uri, addedAt |-> addedAt]

\* the items of the playlist, in playlist order
ItemsOf(lists, name) ==
    IF HasPlaylist(lists, name)
    THEN lists[CHOOSE k \in 1..Len(lists) : lists[k].name = name].tracks
    ELSE <<>>

\* getPlaylistTrackUris: the track URIs of the playlist, in playlist order
TracksOf(lists, name) ==
    LET items == ItemsOf(lists, name)
    IN  [k \in 1..Len(items) |-> items[k].uri]

\* createPlaylist
Created(lists, name) ==
    IF HasPlaylist(lists, name) THEN lists ELSE Append(lists, [name |-> name, tracks |-> <<>>])

\* the server's answer to PUT .../tracks {range_start, range_length,
\* insert_before}: the range is taken out and put back before the item that
\* stood at insert_before
MoveRange(tracks, start, len, before) ==
    LET range == SubSeq(tracks, start + 1, start + len)
        rest == SubSeq(tracks, 1, start) \o SubSeq(tracks, start + len + 1, Len(tracks))
        at == IF before <= start THEN before ELSE before - len
    IN  SubSeq(rest, 1, at) \o range \o SubSeq(rest, at + 1, Len(rest))

\* addTracksToPlaylist: the catalog appends the tracks and stamps them with
\* its clock
Added(tracks, uris, now) == tracks \o [k \in 1..Len(uris) |-> Item(uris[k], now)]

\* reorderPlaylistByDateAdded: the items are read and sorted locally, and the
\* one PUT sent carries range_start 0, range_length n, insert_before n
Reordered(tracks) ==
    IF Len(tracks) = 0 THEN tracks ELSE MoveRange(tracks, 0, Len(tracks), Len(tracks))

\* the playlist after addTracksToPlaylist and reorderPlaylistByDateAdded
AddedAndReordered(tracks, uris, now) == Reordered(Added(tracks, uris, now))

Updated(lists, name, uris, now) ==
    [k \in 1..Len(lists) |->
        IF lists[k].name = name
        THEN [name |-> name, tracks |-> AddedAndReordered(lists[k].tracks, uris, now)]
        ELSE lists[k]]

\* mutant: nothing is ever found in the list
InSeq_never(s, x) == FALSE

\* existingUris.has(x), toAdd.includes(x)
InSeq(s, x) == \E k \in 1..Len(s) : s[k] = x

\* the album of card 2 is the one whose track listing the catalog fails to
\* deliver ("broken"), or a reissue the search answers with the album of
\* card 1 ("alias")
QuirkKey == CatalogKey(StdArtist(2), StdAlbum(2))
AliasKey == CatalogKey(StdArtist(1), StdAlbum(1))

\* searchAlbum returns an album
AlbumFound(unknown, p) == CatalogKey(p.artist, p.album) \notin unknown

\* getAlbumFirstTrackUri throws
TrackLookupThrows(quirk, p) == quirk = "broken" /\ CatalogKey(p.artist, p.album) = QuirkKey

\* getAlbumFirstTrackUri(foundAlbum.id)
FirstTrackUri(quirk, p) ==
    IF quirk = "alias" /\ CatalogKey(p.artist, p.album) = QuirkKey
    THEN <<"t", "r", "a", "c", "k", ":">> \o AliasKey
    ELSE TrackUri(p.artist, p.album)

\* the body of the try block of the pair loop: toAdd after it
PairResolved(batch, existing, unknown, quirk, p) ==
    IF ~AlbumFound(unknown, p) \/ TrackLookupThrows(quirk, p)
    THEN batch
    ELSE IF ~InSeq(existing, FirstTrackUri(quirk, p)) /\ ~InSeq(batch, FirstTrackUri(quirk, p))
         THEN Append(batch, FirstTrackUri(quirk, p))
         ELSE batch

\* moveEmailToTrash(uid) returns; otherwise it throws
MoveSucceeds(uid, stuck) == NumberIsInteger(uid) /\ uid.n > 0 /\ uid.n \notin stuck

\* ---- the mailboxes, catalogs and playlists a run starts from ----

MaxEmails == 2

GoodFrom == <<"P", " ", "<">> \o [k \in 1..Len(EXPECTED_FROM) |->
                IF k = 1 THEN "N" ELSE EXPECTED_FROM[k]] \o <<">">>

OtherFrom == <<"n", "e", "w", "s", "@", "p", ".", "c", "o", "m">>

\* the subject as a Q encoded word, the blanks written "_" and the "B" =42
EncodedSubject ==
    <<"=", "?", "u", "t", "f", "-", "8", "?", "Q", "?">>
    \o Flatten([k \in 1..Len(EXPECTED_SUBJECT) |->
                  CASE EXPECTED_SUBJECT[k] = " " -> <<"_">>
                    [] EXPECTED_SUBJECT[k] = "B" -> <<"=", "4", "2">>
                    [] OTHER -> <<EXPECTED_SUBJECT[k]>>])
    \o <<"?", "=">>

\* a subject the server's SUBJECT search matches and that is not the expected one
LongerSubject == <<"F", "w", ":", " ">> \o EXPECTED_SUBJECT

January == DateOf(2025, 0)
December == DateOf(2025, 11)

\* card 1 in another casing, then card 2
Card1Recased ==
    <<Node("block", <<Link(TRUE, TRUE, <<"R", "A">>), Em(TRUE, <<"l", "A">>)>>), StdBlock(2)>>

\* the kinds of message: uid is filled in by the position in the mailbox
MessageKinds == {
    [from |-> GoodFrom, subject |-> EXPECTED_SUBJECT, date |-> January,
     body |-> HtmlBody(StdBlocks(1)), hasUid |-> TRUE],
    [from |-> GoodFrom, subject |-> EncodedSubject, date |-> January,
     body |-> HtmlBody(Card1Recased), hasUid |-> TRUE],
    [from |-> GoodFrom, subject |-> EXPECTED_SUBJECT \o <<" ">>, date |-> December,
     body |-> HtmlBody(StdBlocks(2)), hasUid |-> TRUE],
    \* no card at all
    [from |-> GoodFrom, subject |-> EXPECTED_SUBJECT, date |-> January,
     body |-> HtmlBody(<<>>), hasUid |-> TRUE],
    \* another sender
    [from |-> OtherFrom, subject |-> EXPECTED_SUBJECT, date |-> January,
     body |-> HtmlBody(StdBlocks(1)), hasUid |-> TRUE],
    \* another subject
    [from |-> GoodFrom, subject |-> LongerSubject, date |-> January,
     body |-> HtmlBody(<<StdBlock(3)>>), hasUid |-> TRUE],
    \* no uid attribute
    [from |-> GoodFrom, subject |-> EXPECTED_SUBJECT, date |-> December,
     body |-> HtmlBody(StdBlocks(1)), hasUid |-> FALSE],
    \* plain text
    [from |-> GoodFrom, subject |-> EXPECTED_SUBJECT, date |-> January,
     body |-> TextBody(TextLine("dash", 4)), hasUid |-> TRUE] }

\* the search result: the uids ascending
MailboxesOf(kinds) ==
    UNION {{[k \in 1..n |->
               Message(IF ks[k].hasUid THEN IntUid(k) ELSE NullUid,
                       ks[k].from, ks[k].subject, ks[k].date, ks[k].body)]
            : ks \in [1..n -> kinds]} : n \in 0..MaxEmails}

Mailboxes == MailboxesOf(MessageKinds)

\* the albums the catalog does not hold
Catalogs == {{}, {CatalogKey(StdArtist(1), StdAlbum(1))}}

\* the playlists the user already has
PlaylistStates ==
    {<<>>,
     <<[name |-> PlaylistName(formatMonthYYYYMM(January)),
        tracks |-> <<Item(TrackUri(StdArtist(2), StdAlbum(2)), 0)>>]>>}

\* the uids the server refuses to move
StuckSets == {{}, {1}}

\* the required environment variables and the stored refresh token
Credentials == {"ok", "noEnv", "noRefreshToken"}

\* ---- one run of syncPlaylistsFromEmails / main ----

InitSync ==
    /\ impl \in Impls
    /\ UtilIdle
    /\ StripIdle
    /\ ExtractIdle
    /\ mailbox \in Mailboxes
    /\ unknownAlbums \in Catalogs
    /\ stuckUids \in StuckSets
    /\ playlists \in PlaylistStates
    /\ emails = <<>>
    /\ monthToPairs = <<>>
    /\ successfulEmailUids = <<>>
    /\ spc = "fetch"
    /\ mailIdx = 0
    /\ pairIdx = 0
    /\ playlistName = <<>>
    /\ monthPairs = <<>>
    /\ existingUris = <<>>
    /\ toAdd = <<>>
    /\ requests = <<>>
    /\ moved = <<>>
    /\ syncOutcome = "running"
    /\ credentials \in Credentials
    /\ catalogQuirk = "none"
    /\ run = 1
    /\ completedRuns = 0
    /\ faults = <<>>

otherVars == <<stripVars, extractVars, utilVars>>
worldVars == <<mailbox, unknownAlbums, stuckUids, credentials, catalogQuirk, run,
               completedRuns, faults>>
monthVars == <<playlistName, monthPairs, existingUris, toAdd>>

\* the environment is incomplete or no refresh token is stored: the run ends
\* before anything is fetched
MissingCredential ==
    /\ spc = "fetch"
    /\ credentials # "ok"
    /\ spc' = "done"
    /\ syncOutcome' = "failed"
    /\ UNCHANGED <<impl, otherVars, worldVars, playlists, emails, monthToPairs,
                   successfulEmailUids, mailIdx, pairIdx, monthVars, requests, moved>>

\* const emails = await fetchAllMatchingEmails(); an empty result ends the run
Fetch ==
    /\ spc = "fetch"
    /\ credentials = "ok"
    /\ emails' = FetchedMails(mailbox)
    /\ IF Len(mailbox) = 0
       THEN spc' = "done" /\ syncOutcome' = "returned" /\ mailIdx' = 0
       ELSE spc' = "emails" /\ mailIdx' = 1 /\ UNCHANGED syncOutcome
    /\ UNCHANGED <<impl, otherVars, worldVars, playlists, monthToPairs,
                   successfulEmailUids, pairIdx, monthVars, requests, moved>>

\* fetchAllMatchingEmails throws: the catch block ends the run
FetchFails ==
    /\ spc = "fetch"
    /\ credentials = "ok"
    /\ spc' = "done"
    /\ syncOutcome' = "failed"
    /\ UNCHANGED <<impl, otherVars, worldVars, playlists, emails, monthToPairs,
                   successfulEmailUids, mailIdx, pairIdx, monthVars, requests, moved>>

\* the body of for (const mail of emails)
ProcessEmail ==
    /\ spc = "emails"
    /\ mailIdx <= Len(emails)
    /\ \E rawPairs \in {extractAlbumArtistPairs(impl, emails[mailIdx].body)} :
       \E ps \in {uniqueBy(rawPairs, <<>>)} :
          /\ monthToPairs' = Bucketed(impl, monthToPairs, emails[mailIdx], ps)
          /\ successfulEmailUids' = Recorded(impl, successfulEmailUids, emails[mailIdx], ps)
    /\ mailIdx' = mailIdx + 1
    /\ UNCHANGED <<impl, otherVars, worldVars, playlists, emails, spc, pairIdx,
                   monthVars, requests, moved, syncOutcome>>

\* if (monthToPairs.size === 0) return
EarlyExit ==
    /\ spc = "emails"
    /\ mailIdx > Len(emails)
    /\ NoBuckets(monthToPairs)
    /\ spc' = "done"
    /\ syncOutcome' = "returned"
    /\ UNCHANGED <<impl, otherVars, worldVars, playlists, emails, monthToPairs,
                   successfulEmailUids, mailIdx, pairIdx, monthVars, requests, moved>>

\* const accessToken = await getAccessTokenFromRefresh(refreshToken)
RefreshToken ==
    /\ spc = "emails"
    /\ mailIdx > Len(emails)
    /\ ~NoBuckets(monthToPairs)
    /\ requests' = Append(requests, Req("token", <<>>, <<>>, <<>>, <<>>))
    /\ spc' = "months"
    /\ mailIdx' = 1
    /\ UNCHANGED <<impl, otherVars, worldVars, playlists, emails, monthToPairs,
                   successfulEmailUids, pairIdx, monthVars, moved, syncOutcome>>

\* the token request is refused: getAccessTokenFromRefresh throws
RefreshTokenFails ==
    /\ spc = "emails"
    /\ mailIdx > Len(emails)
    /\ ~NoBuckets(monthToPairs)
    /\ requests' = Append(requests, Req("token", <<>>, <<>>, <<>>, <<>>))
    /\ spc' = "done"
    /\ syncOutcome' = "failed"
    /\ UNCHANGED <<impl, otherVars, worldVars, playlists, emails, monthToPairs,
                   successfulEmailUids, mailIdx, pairIdx, monthVars, moved>>

\* the head of the loop over monthToPairs.entries(): re-deduplicate, look the
\* playlist up or create it, read its tracks
OpenPlaylist ==
    /\ spc = "months"
    /\ mailIdx <= Len(monthToPairs)
    /\ LET entry == monthToPairs[mailIdx]
           ps == uniqueBy(entry.pairs, <<>>)
           name == PlaylistName(entry.month)
           found == HasPlaylist(playlists, name)
       IN  IF Len(ps) = 0
           THEN /\ mailIdx' = mailIdx + 1
                /\ UNCHANGED <<spc, pairIdx, monthVars, requests, playlists>>
           ELSE /\ requests' = requests
                      \o <<Req("getCurrentUserId", <<>>, <<>>, <<>>, <<>>),
                           Req("findPlaylistByName", name, <<>>, <<>>, <<>>)>>
                      \o (IF found THEN <<>>
                          ELSE <<Req("createPlaylist", name, <<>>, <<>>, <<>>)>>)
                      \o <<Req("getPlaylistTrackUris", name, <<>>, <<>>, <<>>)>>
                /\ playlists' = Created(playlists, name)
                /\ playlistName' = name
                /\ monthPairs' = ps
                /\ existingUris' = TracksOf(playlists, name)
                /\ toAdd' = <<>>
                /\ pairIdx' = 1
                /\ spc' = "pairs"
                /\ UNCHANGED mailIdx
    /\ UNCHANGED <<impl, otherVars, worldVars, emails, monthToPairs,
                   successfulEmailUids, moved, syncOutcome>>

\* the body of for (const { album, artist } of pairs)
ResolvePair ==
    /\ spc = "pairs"
    /\ pairIdx <= Len(monthPairs)
    /\ LET p == monthPairs[pairIdx]
       IN  /\ requests' = requests
                 \o <<Req("searchAlbum", playlistName, p.artist, p.album, <<>>)>>
                 \o (IF AlbumFound(unknownAlbums, p)
                     THEN <<Req("getAlbumFirstTrackUri", playlistName, p.artist, p.album, <<>>)>>
                     ELSE <<>>)
           /\ toAdd' = PairResolved(toAdd, existingUris, unknownAlbums, catalogQuirk, p)
    /\ pairIdx' = pairIdx + 1
    /\ UNCHANGED <<impl, otherVars, worldVars, playlists, emails, monthToPairs,
                   successfulEmailUids, spc, mailIdx, playlistName, monthPairs,
                   existingUris, moved, syncOutcome>>

\* if (toAdd.length > 0) { addTracksToPlaylist; reorderPlaylistByDateAdded }
FinishMonth ==
    /\ spc = "pairs"
    /\ pairIdx > Len(monthPairs)
    /\ IF Len(toAdd) > 0
       THEN /\ requests' = requests
                  \o <<Req("addTracksToPlaylist", playlistName, <<>>, <<>>, toAdd),
                       Req("reorderPlaylistByDateAdded", playlistName, <<>>, <<>>, <<>>)>>
            /\ playlists' = Updated(playlists, playlistName, toAdd, run)
       ELSE UNCHANGED <<requests, playlists>>
    /\ spc' = "months"
    /\ mailIdx' = mailIdx + 1
    /\ pairIdx' = 0
    /\ UNCHANGED <<impl, otherVars, worldVars, emails, monthToPairs,
                   successfulEmailUids, monthVars, moved, syncOutcome>>

\* every month is done: on to the loop over successfulEmailUids
StartTrash ==
    /\ spc = "months"
    /\ mailIdx > Len(monthToPairs)
    /\ spc' = "trash"
    /\ mailIdx' = 1
    /\ UNCHANGED <<impl, otherVars, worldVars, playlists, emails, monthToPairs,
                   successfulEmailUids, pairIdx, monthVars, requests, moved,
                   syncOutcome>>

\* mutant: the loop is left at the first uid whose move fails
AfterMove_stop(i, ok, n) == IF ok THEN i + 1 ELSE n + 1

\* the index of the next uid after moveEmailToTrash returned (ok) or threw:
\* catch (e) { warn } lets the loop go on
AfterMove(i, ok, n) == i + 1

\* try { await moveEmailToTrash(uid) } catch (e) { warn }
TrashStep ==
    /\ spc = "trash"
    /\ mailIdx <= Len(successfulEmailUids)
    /\ LET uid == successfulEmailUids[mailIdx]
       IN  /\ moved' = Append(moved, [uid |-> uid, ok |-> MoveSucceeds(uid, stuckUids)])
           /\ mailIdx' = AfterMove(mailIdx, MoveSucceeds(uid, stuckUids),
                                   Len(successfulEmailUids))
    /\ UNCHANGED <<impl, otherVars, worldVars, playlists, emails, monthToPairs,
                   successfulEmailUids, spc, pairIdx, monthVars, requests,
                   syncOutcome>>

\* the end of the try block
Finish ==
    /\ spc = "trash"
    /\ mailIdx > Len(successfulEmailUids)
    /\ spc' = "done"
    /\ syncOutcome' = "returned"
    /\ UNCHANGED <<impl, otherVars, worldVars, playlists, emails, monthToPairs,
                   successfulEmailUids, mailIdx, pairIdx, monthVars, requests,
                   moved>>

\* the status the process ends with: main's catch block calls process.exit(1)
\* (the single-file script sets process.exitCode = 1, or exits with 1 when no
\* refresh token is stored); a run that returns ends with 0
ExitStatus == IF syncOutcome = "failed" THEN 1 ELSE 0

NextSync ==
    \/ MissingCredential
    \/ Fetch
    \/ FetchFails
    \/ ProcessEmail
    \/ EarlyExit
    \/ RefreshToken
    \/ RefreshTokenFails
    \/ OpenPlaylist
    \/ ResolvePair
    \/ FinishMonth
    \/ StartTrash
    \/ TrashStep
    \/ Finish

SpecSync == InitSync /\ [][NextSync]_vars

-----------------------------------------------------------------------------
(* The sync run started again and again on the same INBOX                  *)

MaxRuns == 2

\* messages that pass the check of both implementations, one of them with no card
RerunKinds ==
    {m \in MessageKinds :
        /\ m.hasUid
        /\ m.from = GoodFrom
        /\ m.subject # LongerSubject
        /\ m.body \in {HtmlBody(StdBlocks(1)), HtmlBody(Card1Recased), HtmlBody(StdBlocks(2)),
                        HtmlBody(<<>>)}}

\* the catalog: the albums it does not hold, and its quirk
CatalogWorlds ==
    {<<{}, "none">>, <<{AliasKey}, "none">>, <<{}, "broken">>, <<{}, "alias">>}

InitRerun ==
    /\ impl \in Impls
    /\ UtilIdle
    /\ StripIdle
    /\ ExtractIdle
    /\ mailbox \in MailboxesOf(RerunKinds)
    /\ \E world \in CatalogWorlds : unknownAlbums = world[1] /\ catalogQuirk = world[2]
    /\ stuckUids \in StuckSets
    /\ playlists \in PlaylistStates
    /\ emails = <<>>
    /\ monthToPairs = <<>>
    /\ successfulEmailUids = <<>>
    /\ spc = "fetch"
    /\ mailIdx = 0
    /\ pairIdx = 0
    /\ playlistName = <<>>
    /\ monthPairs = <<>>
    /\ existingUris = <<>>
    /\ toAdd = <<>>
    /\ requests = <<>>
    /\ moved = <<>>
    /\ syncOutcome = "running"
    /\ credentials \in Credentials
    /\ run = 1
    /\ completedRuns = 0
    /\ faults = <<>>

\* the process has ended and the program is started once more: the playlists
\* and the INBOX are what the run before left (the messages are found again:
\* their move was refused, or they were put back), the histories go on
Restart ==
    /\ spc = "done"
    /\ run < MaxRuns
    /\ run' = run + 1
    /\ completedRuns' = IF syncOutcome = "returned" THEN completedRuns + 1 ELSE completedRuns
    /\ emails' = <<>>
    /\ monthToPairs' = <<>>
    /\ successfulEmailUids' = <<>>
    /\ spc' = "fetch"
    /\ mailIdx' = 0
    /\ pairIdx' = 0
    /\ playlistName' = <<>>
    /\ monthPairs' = <<>>
    /\ existingUris' = <<>>
    /\ toAdd' = <<>>
    /\ syncOutcome' = "running"
    /\ UNCHANGED <<impl, otherVars, mailbox, unknownAlbums, stuckUids, credentials,
                   catalogQuirk, playlists, requests, moved, faults>>

NextRerun == NextSync \/ Restart

SpecRerun == InitRerun /\ [][NextRerun]_vars

-----------------------------------------------------------------------------
(* Properties of the sync run                                              *)

\* the fetched e-mail that carries the uid
MailOfUid(uid) == emails[CHOOSE j \in 1..Len(emails) : emails[j].uid = uid]

\* the e-mail passed the sender check and the subject check, and its
\* deduplicated extraction result is not empty
CheckedAndNonEmpty(mail) ==
    SenderOk(mail) /\ SubjectOk(mail) /\ Len(MailPairs(impl, mail)) > 0

\* C8: successfulEmailUids only ever holds uids of e-mails that passed the
\* sender and the subject check and whose deduplicated extraction result is
\* not empty, and only such e-mails are moved to the trash.
C8_OnlyCheckedNonEmptyUids ==
    /\ \A k \in 1..Len(successfulEmailUids) :
          /\ \E j \in 1..Len(emails) : emails[j].uid = successfulEmailUids[k]
          /\ CheckedAndNonEmpty(MailOfUid(successfulEmailUids[k]))
    /\ \A k \in 1..Len(moved) :
          /\ \E j \in 1..Len(emails) : emails[j].uid = moved[k].uid
          /\ CheckedAndNonEmpty(MailOfUid(moved[k].uid))

\* every e-mail has been through the loop body
AllProcessed == spc \notin {"idle", "fetch"} /\ ~(spc = "emails" /\ mailIdx <= Len(emails))

\* C9: if no month bucket received a pair once every fetched e-mail has been
\* processed, the run ends there: it returns without having issued a catalog
\* request (token refresh included) and without a mailbox move.
C9_EarlyExitTouchesNothing ==
    (AllProcessed /\ Len(emails) > 0 /\ monthToPairs = <<>>) =>
        /\ spc \in {"emails", "done"}
        /\ spc = "done" => syncOutcome = "returned"
        /\ requests = <<>>
        /\ moved = <<>>

\* a run over e-mails that pass the guard and hold no pair has ended early
C9_Witness ==
    /\ spc = "done"
    /\ syncOutcome = "returned"
    /\ monthToPairs = <<>>
    /\ \E j \in 1..Len(emails) :
          PassesCheck(impl, emails[j]) /\ MailPairs(impl, emails[j]) = <<>>
    /\ requests = <<>>
    /\ moved = <<>>

\* the (artist, album) arguments of the searchAlbum calls made for a playlist
RECURSIVE HandedToResolver(_, _)
HandedToResolver(reqs, name) ==
    IF reqs = <<>> THEN <<>>
    ELSE (IF Head(reqs).op = "searchAlbum" /\ Head(reqs).name = name
          THEN <<[artist |-> Head(reqs).artist, album |-> Head(reqs).album]>>
          ELSE <<>>)
         \o HandedToResolver(Tail(reqs), name)

\* what the e-mails from position k on, taken in order, mention for a month
RECURSIVE Mentions(_, _)
Mentions(k, monthStr) ==
    IF k > Len(emails) THEN <<>>
    ELSE (IF PassesCheck(impl, emails[k]) /\ formatMonthYYYYMM(emails[k].date) = monthStr
          THEN extractAlbumArtistPairs(impl, emails[k].body)
          ELSE <<>>)
         \o Mentions(k + 1, monthStr)

SamePair(p, q) ==
    /\ toLowerCase(p.artist) = toLowerCase(q.artist)
    /\ toLowerCase(p.album) = toLowerCase(q.album)

\* the elements of ps that no earlier element equals case-insensitively
RECURSIVE FirstOccurrences(_, _)
FirstOccurrences(ps, k) ==
    IF k > Len(ps) THEN <<>>
    ELSE (IF \E j \in 1..(k - 1) : SamePair(ps[j], ps[k]) THEN <<>> ELSE <<ps[k]>>)
         \o FirstOccurrences(ps, k + 1)

IsPrefix(s, t) == Len(s) <= Len(t) /\ s = SubSeq(t, 1, Len(s))

\* the playlist stage is over
MonthsDone == spc = "trash" \/ (spc = "done" /\ syncOutcome = "returned" /\ requests # <<>>)

\* C10: for every month bucket the pairs handed to the catalog resolver hold
\* no pair twice case-insensitively and are the first occurrences, in order,
\* of what the e-mails of that month mention; once the playlist stage is over
\* every first occurrence has been handed over exactly once.
C10_MonthListDeduplicated ==
    \A k \in 1..Len(monthToPairs) :
        LET handed == HandedToResolver(requests, PlaylistName(monthToPairs[k].month))
            expected == FirstOccurrences(Mentions(1, monthToPairs[k].month), 1)
        IN  /\ \A i, j \in 1..Len(handed) : i # j => ~SamePair(handed[i], handed[j])
            /\ IsPrefix(handed, expected)
            /\ MonthsDone => handed = expected

\* two e-mails of one month mention the same pair in different casings, and
\* the resolver was asked for it once, in the casing of the first e-mail
C10_Witness ==
    /\ MonthsDone
    /\ \E a, b \in 1..Len(emails) :
          /\ a < b
          /\ PassesCheck(impl, emails[a]) /\ PassesCheck(impl, emails[b])
          /\ emails[a].date = emails[b].date
          /\ MailPairs(impl, emails[a]) # <<>>
          /\ MailPairs(impl, emails[b]) # <<>>
          /\ \E p \in {MailPairs(impl, emails[a])[1]} :
             \E q \in {MailPairs(impl, emails[b])[1]} :
                /\ SamePair(p, q)
                /\ p # q
                /\ \E handed \in {HandedToResolver(requests,
                                    PlaylistName(formatMonthYYYYMM(emails[a].date)))} :
                      /\ handed # <<>>
                      /\ handed[1] = p
                      /\ \A i \in 2..Len(handed) : ~SamePair(handed[i], p)

-----------------------------------------------------------------------------
(* Properties of repeated runs                                             *)

\* the requests the step appends to the history
NewRequests == {k \in 1..Len(requests') : k > Len(requests)}

\* C11: whatever the number of runs, a batch handed to addTracksToPlaylist
\* holds no URI twice and no URI the playlist holds at that moment; and once a
\* run has returned normally, a later run on the same messages and the same
\* catalog hands over no batch at all.
C11_NeverAddsWhatIsThere ==
    [][\A k \in NewRequests :
          requests'[k].op = "addTracksToPlaylist" =>
             LET uris == requests'[k].uris
                 held == ItemsOf(playlists, requests'[k].name)
             IN  /\ \A i, j \in 1..Len(uris) : i # j => uris[i] # uris[j]
                 /\ \A i \in 1..Len(uris) : \A j \in 1..Len(held) : held[j].uri # uris[i]
                 /\ completedRuns = 0]_vars

\* the second run has resolved both cards of the month to the one track the
\* first run added as a batch of one, and its own batch is empty
C11_Witness ==
    /\ run = 2
    /\ completedRuns = 1
    /\ catalogQuirk = "alias"
    /\ spc = "pairs"
    /\ Len(monthPairs) = 2
    /\ pairIdx > Len(monthPairs)
    /\ toAdd = <<>>
    /\ Len(ItemsOf(playlists, playlistName)) = 1
    /\ \E k \in 1..Len(requests) :
          /\ requests[k].op = "addTracksToPlaylist"
          /\ requests[k].name = playlistName
          /\ requests[k].uris = existingUris

\* the number of requests with that operation on that playlist
CountOf(reqs, op, name) ==
    Cardinality({k \in 1..Len(reqs) : reqs[k].op = op /\ reqs[k].name = name})

\* the items stand newest first
NewestFirst(items) ==
    \A i, j \in 1..Len(items) : i < j => items[i].addedAt >= items[j].addedAt

\* C12: every playlist a run has added tracks to stands ordered by added
\* timestamp descending once the reorder step is over, and the reordering
\* endpoint was invoked once for each batch added.
C12_NewestFirstAfterReorder ==
    \A k \in 1..Len(requests) :
        requests[k].op = "addTracksToPlaylist" =>
            /\ CountOf(requests, "reorderPlaylistByDateAdded", requests[k].name)
                   = CountOf(requests, "addTracksToPlaylist", requests[k].name)
            /\ NewestFirst(ItemsOf(playlists, requests[k].name))

\* the uids of the moves attempted so far, in the order of the attempts
AttemptedUids == [k \in 1..Len(moved) |-> moved[k].uid]

\* C13: the archive step attempts the uids of successfulEmailUids one after
\* the other, each exactly once: during the step the attempts made are the
\* uids before the current one, after a run that returned they are all of
\* them; and no failed move makes the run fail.
C13_EveryUidAttemptedOnce ==
    /\ spc = "trash" => AttemptedUids = SubSeq(successfulEmailUids, 1, mailIdx - 1)
    /\ (spc = "done" /\ syncOutcome = "returned") => AttemptedUids = successfulEmailUids
    /\ moved # <<>> => syncOutcome # "failed"

\* the first move failed, the second was attempted and succeeded, and the run
\* returned normally
C13_Witness ==
    /\ spc = "done"
    /\ syncOutcome = "returned"
    /\ Len(moved) = 2
    /\ ~moved[1].ok
    /\ moved[2].ok

\* the token request was the last call of the run: it was refused
TokenRefused == requests # <<>> /\ requests[Len(requests)].op = "token"

\* the INBOX holds messages and none was handed over: the mail server
\* refused the connection or the login
FetchRefused == credentials = "ok" /\ mailbox # <<>> /\ emails = <<>>

\* the search matches no message
NoMatchingEmails == mailbox = <<>>

\* C14: the process ends with a non-zero status exactly when a run-level
\* condition holds: a required input or the refresh token is missing, an
\* authentication is refused, or no message matches at all; a failure on one
\* message, pair or album never gives a non-zero status.
C14_NonZeroExactlyForRunLevel ==
    spc = "done" =>
        (ExitStatus # 0 <=>
            (credentials # "ok" \/ TokenRefused \/ FetchRefused \/ NoMatchingEmails))

-----------------------------------------------------------------------------
(* searchAlbum: the candidate queries, one request per step                *)

Quote == "\""
LeftDoubleQuote == "ldquo"
RightDoubleQuote == "rdquo"
LeftSingleQuote == "lsquo"
RightSingleQuote == "rsquo"

AlbumOpen == <<"a", "l", "b", "u", "m", ":", Quote>>
ArtistOpen == <<"a", "r", "t", "i", "s", "t", ":", Quote>>

\* album:"x" and artist:"x"
AlbumField(x) == AlbumOpen \o x \o <<Quote>>
ArtistField(x) == ArtistOpen \o x \o <<Quote>>

\* the length above which a query is shortened, and the length it is cut to
QueryCeiling == 250
LegacyCeiling == 230
HardLimit == 230
\* the album keeps at least this many characters, and loses this many more
\* than the overflow
MinAlbumKeep == 10
Slack == 5
\* the words of albumShortByWords
ShortWords == 6

Ceiling(im) == IF im = "legacy" THEN LegacyCeiling ELSE QueryCeiling

Max(a, b) == IF a > b THEN a ELSE b

\* replace(/[“”]/g, '"').replace(/[‘’]/g, "'")
StraightQuotes(s) ==
    [k \in 1..Len(s) |->
        CASE s[k] \in {LeftDoubleQuote, RightDoubleQuote} -> Quote
          [] s[k] \in {LeftSingleQuote, RightSingleQuote} -> "'"
          [] OTHER -> s[k]]

\* sanitize of the single-file script
sanitize(input) == trim(StraightQuotes(CollapseSpaces(input)))

\* truncate of the single-file script
truncate(str, maxLen) ==
    IF Len(str) <= maxLen THEN str ELSE trim(SubSeq(str, 1, maxLen))

\* str.substring(0, n)
substring0(str, n) == SubSeq(str, 1, Min(Max(n, 0), Len(str)))

\* cleanAlbum, cleanArtist
CleanName(im, x) == IF im = "legacy" THEN sanitize(x) ELSE Clean(x)

\* cleanAlbum.split(/\s+/)[0]
FirstWord(s) ==
    LET j == MinPos({k \in 1..Len(s) : IsSpace(s[k])})
    IN  IF j = 0 THEN s ELSE SubSeq(s, 1, j - 1)

\* cleanAlbum.split(' ').slice(0, n).join(' ')
FirstWords(s, n) ==
    LET blanks == {k \in 1..Len(s) : s[k] = " "}
    IN  IF Cardinality(blanks) < n THEN s
        ELSE SubSeq(s, 1, (CHOOSE b \in blanks :
                              Cardinality({c \in blanks : c < b}) = n - 1) - 1)

\* the q of a candidate { album: a, artist: ar } of the modular service; an
\* empty or null artist adds nothing
QueryOf(a, ar) ==
    AlbumField(a) \o (IF ar = <<>> THEN <<>> ELSE <<" ">> \o ArtistField(ar))

\* the candidates in the order they are tried
Candidates(im, album, artist) ==
    LET cleanAlbum == CleanName(im, album)
        cleanArtist == CleanName(im, artist)
    IN  IF im = "legacy"
        THEN <<AlbumField(cleanAlbum) \o <<" ">> \o ArtistField(cleanArtist),
               ArtistField(cleanArtist) \o <<" ">>
                   \o AlbumField(FirstWords(cleanAlbum, ShortWords)),
               AlbumField(cleanAlbum),
               cleanAlbum>>
        ELSE <<QueryOf(cleanAlbum, cleanArtist),
               QueryOf(cleanAlbum, <<>>),
               QueryOf(FirstWord(cleanAlbum), cleanArtist)>>

\* q.match(/album:"([^"]*)"/): where the album text starts and where its
\* closing quote stands, 0 and 0 if there is no match
AlbumMatch(q) ==
    LET open == IndexFrom(q, 1, AlbumOpen)
        close == IF open = 0 THEN 0 ELSE IndexFrom(q, open + Len(AlbumOpen), <<Quote>>)
    IN  IF close = 0 THEN [from |-> 0, close |-> 0]
        ELSE [from |-> open + Len(AlbumOpen), close |-> close]

\* the album part of q cut down by the overflow and Slack more
AlbumShortened(im, q) ==
    LET m == AlbumMatch(q)
        currentAlbum == SubSeq(q, m.from, m.close - 1)
        overflow == Len(q) - Ceiling(im)
        targetLen == Max(MinAlbumKeep, Len(currentAlbum) - overflow - Slack)
        reduced == IF im = "legacy" THEN truncate(currentAlbum, targetLen)
                   ELSE substring0(currentAlbum, targetLen)
    IN  IF m.from = 0 THEN q
        ELSE SubSeq(q, 1, m.from - 1) \o reduced \o SubSeq(q, m.close, Len(q))

\* the hard cut
HardCut(im, q) ==
    IF Len(q) <= HardLimit THEN q
    ELSE IF im = "legacy" THEN truncate(q, HardLimit) ELSE substring0(q, HardLimit)

\* the q that is sent for a candidate
Shortened(im, q) == IF Len(q) > Ceiling(im) THEN HardCut(im, AlbumShortened(im, q)) ELSE q

\* the characters encodeURIComponent leaves as they are
Digits == {"0", "1", "2", "3", "4", "5", "6", "7", "8", "9"}
Unreserved ==
    UpperCase \cup {LowerOf[c] : c \in UpperCase} \cup Digits
        \cup {"-", "_", ".", "!", "~", "*", "'", "(", ")"}

\* encodeURIComponent(q).length: an escaped ASCII character is written %XX
EncodedLength(q) == Len(q) + 2 * Cardinality({k \in 1..Len(q) : q[k] \notin Unreserved})

\* mutant: the failure of a query is raised to the caller
AfterQueryError_rethrow == "throw"

\* catch (e) { ...; continue; }
AfterQueryError == "continue"

\* ---- the inputs ----

MaxNameLen == 260

Filled(n) == [k \in 1..n |-> "a"]

\* words of four letters, the first capitalised, with single blanks
Worded(n) == [k \in 1..n |-> IF k % 5 = 0 THEN " " ELSE IF k % 5 = 1 THEN "W" ELSE "o"]

AlbumInputs ==
    {StdAlbum(1), <<"<", "b", ">", "L", "a", "<", "/", "b", ">", " ">>, <<>>}
      \cup {Filled(n) : n \in {MaxAlbumLen, 233, 242, 243, MaxNameLen}}
      \cup {Worded(n) : n \in {29, MaxAlbumLen - 1, MaxNameLen - 1}}
      \cup {<<"a", Quote>> \o Filled(MaxNameLen)}

ArtistInputs == {<<>>, StdArtist(1)} \cup {Filled(n) : n \in {MaxArtistLen, MaxNameLen}}

\* what the catalog does with a request
Answers == {"items", "empty", "error"}

InitSearch ==
    /\ impl \in Impls
    /\ StripIdle
    /\ ExtractIdle
    /\ SyncIdle
    /\ TrashIdle
    /\ RetryIdle
    /\ MimeIdle
    /\ qAlbum \in AlbumInputs
    /\ qArtist \in ArtistInputs
    /\ candidates = <<>>
    /\ cand = 0
    /\ issued = <<>>
    /\ answers = <<>>
    /\ searchResult = "called"

\* cleanAlbum, cleanArtist and const candidates = [...]
BuildCandidates ==
    /\ searchResult = "called"
    /\ candidates' = Candidates(impl, qAlbum, qArtist)
    /\ cand' = 1
    /\ searchResult' = "pending"
    /\ UNCHANGED <<impl, stripVars, extractVars, syncVars, trashVars, retryVars, mimeVars, qAlbum, qArtist, issued, answers>>

\* one turn of for (const candidate of candidates): build q, shorten it, send
\* the request, return the album found or go on
TryCandidate ==
    /\ searchResult = "pending"
    /\ cand <= Len(candidates)
    /\ issued' = Append(issued, Shortened(impl, candidates[cand]))
    /\ \E answer \in Answers :
          /\ answers' = Append(answers, answer)
          /\ CASE answer = "items" -> searchResult' = "album" /\ UNCHANGED cand
               [] answer = "empty" -> cand' = cand + 1 /\ UNCHANGED searchResult
               [] OTHER ->
                    IF AfterQueryError = "continue"
                    THEN cand' = cand + 1 /\ UNCHANGED searchResult
                    ELSE searchResult' = "threw" /\ UNCHANGED cand
    /\ UNCHANGED <<impl, stripVars, extractVars, syncVars, trashVars, retryVars, mimeVars, qAlbum, qArtist, candidates>>

\* return null
ReturnNull ==
    /\ searchResult = "pending"
    /\ cand > Len(candidates)
    /\ searchResult' = "null"
    /\ UNCHANGED <<impl, stripVars, extractVars, syncVars, trashVars, retryVars, mimeVars, qAlbum, qArtist, candidates,
                   cand, issued, answers>>

NextSearch == BuildCandidates \/ TryCandidate \/ ReturnNull

SpecSearch == InitSearch /\ [][NextSearch]_vars

-----------------------------------------------------------------------------
(* Properties of searchAlbum                                               *)

\* C15: searchAlbum never throws: every candidate sent so far has its answer,
\* after a query that failed or found nothing the loop stands at the next
\* candidate, an answer with items ends the search with an album, and the
\* result is null only after every candidate was sent and none was answered
\* with items.
C15_SearchNeverThrows ==
    /\ searchResult # "threw"
    /\ Len(issued) = Len(answers)
    /\ \A k \in 1..Len(answers) :
          answers[k] = "items" => (k = Len(answers) /\ searchResult = "album")
    /\ searchResult = "album" => (answers # <<>> /\ answers[Len(answers)] = "items")
    /\ searchResult = "pending" => cand = Len(issued) + 1
    /\ searchResult = "null" => (candidates # <<>> /\ Len(issued) = Len(candidates))

\* an over-long first query failed, the last candidate failed too, and the
\* search ended with null
C15_Witness ==
    /\ searchResult = "null"
    /\ Len(qAlbum) > QueryCeiling
    /\ answers[1] = "error"
    /\ answers[Len(answers)] = "error"
    /\ Len(issued[1]) = HardLimit

\* C16: no request carries a q whose URL-encoded length is above 250; a
\* candidate above the ceiling is shortened and still sent.
C16_EncodedQueryWithinCeiling ==
    /\ \A k \in 1..Len(issued) : EncodedLength(issued[k]) <= QueryCeiling
    /\ searchResult = "pending" => cand = Len(issued) + 1

-----------------------------------------------------------------------------
(* The trash mover: LIST lines, findTrashFolder                            *)

Backslash == "\\"

TrashFlag == <<Backslash, "T", "r", "a", "s", "h">>
DeletedFlag == <<Backslash, "D", "e", "l", "e", "t", "e", "d">>

\* the fourth keyword stands in the source with the two characters that a
\* wrongly decoded o-umlaut leaves
TRASH_KEYWORDS == <<
    <<"t", "r", "a", "s", "h">>,
    <<"d", "e", "l", "e", "t", "e", "d">>,
    <<"p", "a", "p", "i", "e", "r", "k", "o", "r", "b">>,
    <<"g", "e", "l", "radic", "part", "s", "c", "h", "t">>,
    <<"e", "l", "i", "m", "i", "n", "a", "d", "o", "s">> >>

\* String.prototype.includes
includes(s, pat) == IndexFrom(s, 1, pat) # 0

\* the greatest position of a set of positions, 0 if there is none
MaxPos(S) == IF S = {} THEN 0 ELSE CHOOSE k \in S : \A j \in S : j <= k

\* an entry of the parsed list; flags: null is hasFlags = FALSE, name: null
\* is the empty name
Box(hasFlags, flags, name) == [hasFlags |-> hasFlags, flags |-> flags, name |-> name]

\* the position of the quote that ends the line, blanks after it aside: 0 if
\* the line does not end with a quote
EndQuote(line) ==
    LET e == Len(TrimRight(line))
    IN  IF e >= 1 /\ line[e] = Quote THEN e ELSE 0

\* the first ")" after position p, 0 if none
FirstClose(line, p) == MinPos({c \in (p + 1)..Len(line) : line[c] = ")"})

\* /\((?<flags>[^)]*)\).*"(?<name>.+)"\s*$/ matched from the "(" at p: the
\* flags end at the first ")", the greedy .* leaves the name the text after
\* the last quote that still has a character before the closing quote
NameQuote(line, p) ==
    LET c == FirstClose(line, p)
    IN  IF c = 0 THEN 0
        ELSE MaxPos({o \in (c + 1)..(EndQuote(line) - 2) : line[o] = Quote})

\* /"(?<name>[^"]+)"\s*$/: the quote before the closing one
FallbackQuote(line) ==
    LET o == MaxPos({k \in 1..(EndQuote(line) - 1) : line[k] = Quote})
    IN  IF o = 0 \/ o = EndQuote(line) - 1 THEN 0 ELSE o

\* _parseListLine
ParseListLine(line) ==
    LET e == EndQuote(line)
        p == MinPos({k \in 1..Len(line) : line[k] = "(" /\ NameQuote(line, k) # 0})
    IN  IF e # 0 /\ p # 0
        THEN Box(TRUE, trim(SubSeq(line, p + 1, FirstClose(line, p) - 1)),
                 trim(SubSeq(line, NameQuote(line, p) + 1, e - 1)))
        ELSE IF e # 0 /\ FallbackQuote(line) # 0
             THEN Box(FALSE, <<>>, SubSeq(line, FallbackQuote(line) + 1, e - 1))
             ELSE Box(FALSE, <<>>, <<>>)

\* _listMailboxes: the parsed lines that have a name
RECURSIVE ListedFrom(_, _)
ListedFrom(lines, k) ==
    IF k > Len(lines) THEN <<>>
    ELSE (IF ParseListLine(lines[k]).name = <<>> THEN <<>> ELSE <<ParseListLine(lines[k])>>)
            \o ListedFrom(lines, k + 1)

ListMailboxes(lines) == ListedFrom(lines, 1)

\* mutant: no mailbox is taken for flagged
HasTrashFlag_never(box) == FALSE

\* flags && (flags.includes('\\Trash') || flags.includes('\\Deleted'))
HasTrashFlag(box) ==
    /\ box.hasFlags
    /\ box.flags # <<>>
    /\ (includes(box.flags, TrashFlag) \/ includes(box.flags, DeletedFlag))

\* TRASH_KEYWORDS.some((k) => nameLower.includes(k))
HasTrashName(box) ==
    \E k \in 1..Len(TRASH_KEYWORDS) : includes(toLowerCase(box.name), TRASH_KEYWORDS[k])

\* the first loop of findTrashFolder: the index of the box it returns at, 0
\* if it runs to its end
RECURSIVE FirstFlagged(_, _)
FirstFlagged(boxes, k) ==
    IF k > Len(boxes) THEN 0
    ELSE IF HasTrashFlag(boxes[k]) THEN k ELSE FirstFlagged(boxes, k + 1)

\* the second loop
RECURSIVE FirstNamed(_, _)
FirstNamed(boxes, k) ==
    IF k > Len(boxes) THEN 0
    ELSE IF HasTrashName(boxes[k]) THEN k ELSE FirstNamed(boxes, k + 1)

\* findTrashFolder on the parsed list: the name, <<>> for null
findTrashFolder(boxes) ==
    IF FirstFlagged(boxes, 1) # 0 THEN boxes[FirstFlagged(boxes, 1)].name
    ELSE IF FirstNamed(boxes, 1) # 0 THEN boxes[FirstNamed(boxes, 1)].name
    ELSE <<>>

\* a command sent to the mail server
Cmd(name, uid, box) == [cmd |-> name, uid |-> uid, box |-> box]

\* ---- the LIST answers ----

MaxBoxes == 2

NoChildren == <<Backslash, "H", "a", "s", "N", "o", "C", "h", "i", "l", "d", "r", "e", "n">>

\* (flags) "/" "name"
QuotedLine(flags, name) ==
    <<"(">> \o flags \o <<")", " ", Quote, "/", Quote, " ", Quote>> \o name \o <<Quote>>

ListLines == {
    QuotedLine(NoChildren, <<"I", "N", "B", "O", "X">>),
    QuotedLine(TrashFlag, <<"D", "e", "l", "e", "t", "e", "d", " ", "M", "e", "s", "s", "a", "g", "e", "s">>),
    QuotedLine(NoChildren, <<"I", "N", "B", "O", "X", "/", "T", "r", "a", "s", "h">>),
    QuotedLine(NoChildren \o <<" ">> \o DeletedFlag, <<"B", "i", "n">>) \o <<" ">>,
    \* no flag list at all
    <<Quote, "/", Quote, " ", Quote, "P", "a", "p", "i", "e", "r", "k", "o", "r", "b", Quote>>,
    \* the name is not quoted
    <<"(">> \o TrashFlag \o <<")", " ", Quote, "/", Quote, " ", "J", "u", "n", "k">>,
    \* an empty flag list
    QuotedLine(<<>>, <<"A", "r", "c", "h", "i", "v", "e">>) }

Listings == UNION {[1..n -> ListLines] : n \in 0..MaxBoxes}

InitFolder ==
    /\ impl = "modular"
    /\ StripIdle
    /\ ExtractIdle
    /\ SyncIdle
    /\ SearchIdle
    /\ RetryIdle
    /\ MimeIdle
    /\ listing \in Listings
    /\ capabilities = {}
    /\ refusals \in {{}, {"list"}}
    /\ refusedUids = {}
    /\ tUids = [given |-> FALSE, items |-> <<>>]
    /\ tTarget = <<>>
    /\ dryRun = FALSE
    /\ tpc = "find"
    /\ trashFolder = <<>>
    /\ tIdx = 0
    /\ successCount = 0
    /\ imapLog = <<>>
    /\ moveResults = <<>>
    /\ tResult = "none"

\* findTrashFolder(imap), called on its own
FindTrash ==
    /\ tpc = "find"
    /\ imapLog' = Append(imapLog, Cmd("list", 0, <<>>))
    /\ tpc' = "done"
    /\ IF "list" \in refusals
       THEN tResult' = "listFailed" /\ UNCHANGED trashFolder
       ELSE tResult' = "returned" /\ trashFolder' = findTrashFolder(ListMailboxes(listing))
    /\ UNCHANGED <<impl, stripVars, extractVars, syncVars, searchVars, retryVars, mimeVars, listing,
                   capabilities, refusals, refusedUids, tUids, tTarget, dryRun, tIdx,
                   successCount, moveResults>>

NextFolder == FindTrash

SpecFolder == InitFolder /\ [][NextFolder]_vars

-----------------------------------------------------------------------------
(* Properties of findTrashFolder                                           *)

\* the mailboxes the LIST answer yields, as _listMailboxes hands them over
Listed == ListMailboxes(listing)

\* the positions of the listed mailboxes whose flags hold \Trash or \Deleted
FlaggedAt ==
    {k \in 1..Len(Listed) :
        /\ Listed[k].hasFlags
        /\ \E i \in 1..Len(Listed[k].flags) :
              \/ HasAt(Listed[k].flags, i, TrashFlag)
              \/ HasAt(Listed[k].flags, i, DeletedFlag)}

\* the positions of those whose lower-cased name holds a keyword
NamedAt ==
    {k \in 1..Len(Listed) :
        \E w \in 1..Len(TRASH_KEYWORDS) : \E i \in 1..Len(Listed[k].name) :
            HasAt(toLowerCase(Listed[k].name), i, TRASH_KEYWORDS[w])}

\* C18: findTrashFolder returns the first listed mailbox that carries \Trash
\* or \Deleted whenever there is one, whatever the names before it; otherwise
\* the first whose lower-cased name holds a keyword; otherwise null.
C18_FlagBeforeName ==
    (tpc = "done" /\ tResult = "returned") =>
        IF FlaggedAt # {} THEN trashFolder = Listed[MinPos(FlaggedAt)].name
        ELSE IF NamedAt # {} THEN trashFolder = Listed[MinPos(NamedAt)].name
        ELSE trashFolder = <<>>

\* the second mailbox is the flagged one and is returned although the name
\* of the first holds a keyword
C18_Witness ==
    /\ tpc = "done"
    /\ tResult = "returned"
    /\ Len(Listed) = 2
    /\ 1 \in NamedAt
    /\ FlaggedAt = {2}
    /\ trashFolder = Listed[2].name
    /\ trashFolder # Listed[1].name

-----------------------------------------------------------------------------
(* The trash mover: ensureMailbox, moveUid, moveUidsToTrash                *)

UpperChar(c) ==
    IF \E u \in UpperCase : LowerOf[u] = c
    THEN CHOOSE u \in UpperCase : LowerOf[u] = c
    ELSE c

toUpperCase(s) == [i \in 1..Len(s) |-> UpperChar(s[i])]

\* _supportsMove
supportsMove(caps) == \E c \in caps : toUpperCase(c) = <<"M", "O", "V", "E">>

\* the mailbox moveUidsToTrash falls back to
FallbackBox == <<"I", "N", "B", "O", "X", "/", "T", "r", "a", "s", "h">>

\* the uids argument: given is FALSE for a missing (null, undefined) list
UidList(given, items) == [given |-> given, items |-> items]

\* boxes.some((box) => box.name === target) of ensureMailbox
BoxExists(boxes, target) == \E k \in 1..Len(boxes) : boxes[k].name = target

\* mutant: the fallback flags and expunges the message whatever COPY answered
moveUid_deleteAnyway(caps, refused, refusedU, uid, target, dry) ==
    [uid |-> uid,
     cmds |-> <<[cmd |-> "copy", uid |-> uid, box |-> target],
                [cmd |-> "addFlags", uid |-> uid, box |-> <<>>],
                [cmd |-> "expunge", uid |-> 0, box |-> <<>>]>>,
     ok |-> TRUE]

\* moveUid: the commands it sends for one UID and what it resolves to.
\* refusedU are the UIDs whose MOVE or COPY the server refuses, refused the
\* commands it refuses for every UID
moveUid(caps, refused, refusedU, uid, target, dry) ==
    IF dry THEN [uid |-> uid, cmds |-> <<>>, ok |-> TRUE]
    ELSE IF supportsMove(caps)
    THEN [uid |-> uid, cmds |-> <<Cmd("move", uid, target)>>, ok |-> uid \notin refusedU]
    ELSE IF uid \in refusedU
    THEN [uid |-> uid, cmds |-> <<Cmd("copy", uid, target)>>, ok |-> FALSE]
    ELSE IF "addFlags" \in refused
    THEN [uid |-> uid, cmds |-> <<Cmd("copy", uid, target), Cmd("addFlags", uid, <<>>)>>,
          ok |-> FALSE]
    ELSE [uid |-> uid,
          cmds |-> <<Cmd("copy", uid, target), Cmd("addFlags", uid, <<>>),
                     Cmd("expunge", 0, <<>>)>>,
          ok |-> "expunge" \notin refused]

\* mutant: every UID is counted
Counted_always(count, ok) == count + 1

\* if (ok) successCount += 1
Counted(count, ok) == IF ok THEN count + 1 ELSE count

\* ---- the calls of moveUidsToTrash ----

MaxUids == 2

UidLists ==
    {UidList(FALSE, <<>>)} \cup
    {UidList(TRUE, items) : items \in UNION {[1..n -> 1..MaxUids] : n \in 0..MaxUids}}

TrashListings == {
    <<>>,
    <<QuotedLine(NoChildren, <<"I", "N", "B", "O", "X">>)>>,
    <<QuotedLine(NoChildren, <<"I", "N", "B", "O", "X">>),
      QuotedLine(TrashFlag, <<"D", "e", "l", "e", "t", "e", "d", " ", "M", "e", "s", "s", "a", "g", "e", "s">>)>>,
    <<QuotedLine(NoChildren, <<"I", "N", "B", "O", "X", "/", "T", "r", "a", "s", "h">>)>> }

CapabilitySets == {
    {<<"I", "M", "A", "P", "4", "r", "e", "v", "1">>},
    {<<"I", "M", "A", "P", "4", "r", "e", "v", "1">>, <<"M", "o", "v", "e">>} }

Refusals == {{}, {"openBox"}, {"list"}, {"createBox"}, {"addFlags"}, {"expunge"}}

Targets == {<<>>, <<"A", "r", "c", "h", "i", "v", "e">>}

InitTrash ==
    /\ impl = "modular"
    /\ StripIdle
    /\ ExtractIdle
    /\ SyncIdle
    /\ SearchIdle
    /\ RetryIdle
    /\ MimeIdle
    /\ listing \in TrashListings
    /\ capabilities \in CapabilitySets
    /\ refusals \in Refusals
    /\ refusedUids \in {{}, {1}}
    /\ tUids \in UidLists
    /\ tTarget \in Targets
    /\ dryRun \in BOOLEAN
    /\ tpc = "start"
    /\ trashFolder = <<>>
    /\ tIdx = 0
    /\ successCount = 0
    /\ imapLog = <<>>
    /\ moveResults = <<>>
    /\ tResult = "none"

trashInputs == <<listing, capabilities, refusals, refusedUids, tUids, tTarget, dryRun>>

trashOthers == <<impl, stripVars, extractVars, syncVars, searchVars, retryVars, mimeVars>>

\* if (!uids || uids.length === 0) throw new Error('No UIDs provided')
RejectNoUids ==
    /\ tpc = "start"
    /\ (~tUids.given \/ Len(tUids.items) = 0)
    /\ tpc' = "done"
    /\ tResult' = "noUids"
    /\ UNCHANGED <<trashOthers, trashInputs, trashFolder, tIdx, successCount, imapLog,
                   moveResults>>

\* imap.openBox(source, false, ...)
OpenSource ==
    /\ tpc = "start"
    /\ tUids.given
    /\ Len(tUids.items) # 0
    /\ imapLog' = Append(imapLog, Cmd("openBox", 0, <<"I", "N", "B", "O", "X">>))
    /\ IF "openBox" \in refusals
       THEN tpc' = "done" /\ tResult' = "openFailed"
       ELSE tpc' = "target" /\ UNCHANGED tResult
    /\ UNCHANGED <<trashOthers, trashInputs, trashFolder, tIdx, successCount, moveResults>>

\* let trashFolder = target, when a target was given
UseTarget ==
    /\ tpc = "target"
    /\ tTarget # <<>>
    /\ trashFolder' = tTarget
    /\ tpc' = "loop"
    /\ UNCHANGED <<trashOthers, trashInputs, tIdx, successCount, imapLog, moveResults,
                   tResult>>

\* trashFolder = await findTrashFolder(imap)
DetectTrash ==
    /\ tpc = "target"
    /\ tTarget = <<>>
    /\ imapLog' = Append(imapLog, Cmd("list", 0, <<>>))
    /\ IF "list" \in refusals
       THEN tpc' = "done" /\ tResult' = "listFailed" /\ UNCHANGED trashFolder
       ELSE /\ trashFolder' = findTrashFolder(ListMailboxes(listing))
            /\ tpc' = IF trashFolder' = <<>> THEN "ensure" ELSE "loop"
            /\ UNCHANGED tResult
    /\ UNCHANGED <<trashOthers, trashInputs, tIdx, successCount, moveResults>>

\* created = await ensureMailbox(imap, 'INBOX/Trash'); the list was answered
\* a moment ago, so it is answered again
EnsureFallback ==
    /\ tpc = "ensure"
    /\ IF BoxExists(ListMailboxes(listing), FallbackBox)
       THEN /\ imapLog' = Append(imapLog, Cmd("list", 0, <<>>))
            /\ trashFolder' = FallbackBox
            /\ tpc' = "loop"
            /\ UNCHANGED tResult
       ELSE /\ imapLog' = imapLog \o <<Cmd("list", 0, <<>>), Cmd("createBox", 0, FallbackBox)>>
            /\ IF "createBox" \in refusals
               THEN tpc' = "done" /\ tResult' = "noTrash" /\ UNCHANGED trashFolder
               ELSE tpc' = "loop" /\ trashFolder' = FallbackBox /\ UNCHANGED tResult
    /\ UNCHANGED <<trashOthers, trashInputs, tIdx, successCount, moveResults>>

\* one round of for (const uid of uids)
MoveStep ==
    /\ tpc = "loop"
    /\ tIdx < Len(tUids.items)
    /\ \E r \in {moveUid(capabilities, refusals, refusedUids, tUids.items[tIdx + 1],
                         trashFolder, dryRun)} :
          /\ imapLog' = imapLog \o r.cmds
          /\ moveResults' = Append(moveResults, r)
          /\ successCount' = Counted(successCount, r.ok)
    /\ tIdx' = tIdx + 1
    /\ UNCHANGED <<trashOthers, trashInputs, tpc, trashFolder, tResult>>

\* return successCount
ReturnCount ==
    /\ tpc = "loop"
    /\ tIdx = Len(tUids.items)
    /\ tpc' = "done"
    /\ tResult' = "returned"
    /\ UNCHANGED <<trashOthers, trashInputs, trashFolder, tIdx, successCount, imapLog,
                   moveResults>>

NextTrash ==
    \/ RejectNoUids
    \/ OpenSource
    \/ UseTarget
    \/ DetectTrash
    \/ EnsureFallback
    \/ MoveStep
    \/ ReturnCount

SpecTrash == InitTrash /\ [][NextTrash]_vars

-----------------------------------------------------------------------------
(* Properties of moveUidsToTrash                                           *)

\* the rounds of the loop in which moveUid resolved to true
Succeeded == {k \in 1..Len(moveResults) : moveResults[k].ok}

Changing == {"move", "copy", "addFlags", "expunge", "createBox"}

\* C19: with dryRun set, moveUidsToTrash sends none of MOVE, COPY, the
\* \Deleted flag, EXPUNGE or a mailbox creation, whatever the UIDs and
\* whether or not a trash folder is detected, and counts every UID.
C19_DryRunChangesNothing ==
    dryRun =>
        /\ \A k \in 1..Len(imapLog) : imapLog[k].cmd \notin Changing
        /\ (tpc = "done" /\ tUids.given /\ tUids.items # <<>> /\ "openBox" \notin refusals
              /\ "list" \notin refusals)
              => (tResult = "returned" /\ successCount = Len(tUids.items))

-----------------------------------------------------------------------------
(* callWithRetry                                                           *)

\* the default and documented arguments
DefaultMaxRetries == 3
DefaultBaseDelayMs == 1000

\* baseDelayMs * Math.pow(2, attempt - 1)
DelayMs(base, n) == base * 2 ^ (n - 1)

\* if (attempt === maxRetries)
LastAttempt(n, max) == n = max

MaxRetriesArg == 4

BaseDelays == {0, 250, 500, DefaultBaseDelayMs}

FnOutcomes == {"ok", "error"}

InitRetry ==
    /\ impl = "modular"
    /\ StripIdle
    /\ ExtractIdle
    /\ SyncIdle
    /\ SearchIdle
    /\ TrashIdle
    /\ MimeIdle
    /\ maxRetries \in 0..MaxRetriesArg
    /\ baseDelayMs \in BaseDelays
    /\ attempt = 1
    /\ fnCalls = <<>>
    /\ waits = <<>>
    /\ retryState = "loop"
    /\ retryValue = 0

retryOthers == <<impl, stripVars, extractVars, syncVars, searchVars, trashVars, mimeVars>>

\* one round of the loop up to its await: fn is called; its result is
\* returned, or its error is kept and either thrown or followed by a sleep.
\* retryValue is the call whose result or error leaves the function
Attempt ==
    /\ retryState = "loop"
    /\ attempt <= maxRetries
    /\ \E answer \in FnOutcomes :
          /\ fnCalls' = Append(fnCalls, answer)
          /\ IF answer = "ok"
             THEN /\ retryState' = "returned"
                  /\ retryValue' = Len(fnCalls')
                  /\ UNCHANGED waits
             ELSE IF LastAttempt(attempt, maxRetries)
                  THEN /\ retryState' = "threw"
                       /\ retryValue' = Len(fnCalls')
                       /\ UNCHANGED waits
                  ELSE /\ retryState' = "sleep"
                       /\ waits' = Append(waits, DelayMs(baseDelayMs, attempt))
                       /\ UNCHANGED retryValue
    /\ UNCHANGED <<retryOthers, maxRetries, baseDelayMs, attempt>>

\* the sleep is over: attempt++
Wake ==
    /\ retryState = "sleep"
    /\ attempt' = attempt + 1
    /\ retryState' = "loop"
    /\ UNCHANGED <<retryOthers, maxRetries, baseDelayMs, fnCalls, waits, retryValue>>

\* the loop condition fails: throw lastError, the error of the last call or
\* undefined (0) if fn was never called
Exhausted ==
    /\ retryState = "loop"
    /\ attempt > maxRetries
    /\ retryState' = "threw"
    /\ retryValue' = Len(fnCalls)
    /\ UNCHANGED <<retryOthers, maxRetries, baseDelayMs, attempt, fnCalls, waits>>

NextRetry ==
    \/ Attempt
    \/ Wake
    \/ Exhausted

SpecRetry == InitRetry /\ [][NextRetry]_vars

-----------------------------------------------------------------------------
(* Properties of callWithRetry                                             *)

\* the calls of fn that failed
FailedCalls == {k \in 1..Len(fnCalls) : fnCalls[k] = "error"}

\* C20: callWithRetry calls fn at most maxRetries times, returns the first
\* success without calling fn again, waits baseDelayMs * 2^(k-1) after the
\* k-th failed attempt (1 s, 2 s and 4 s with the documented arguments 3 and
\* 1000), and rethrows the last error once all attempts have failed.
C20_RetryWithBackoff ==
    /\ Len(fnCalls) <= maxRetries
    /\ retryState = "returned" =>
          /\ fnCalls[Len(fnCalls)] = "ok"
          /\ FailedCalls = 1..(Len(fnCalls) - 1)
          /\ retryValue = Len(fnCalls)
    /\ \A k \in 1..Len(waits) : k \in FailedCalls /\ waits[k] = baseDelayMs * 2 ^ (k - 1)
    /\ (retryState = "threw" /\ maxRetries > 0) =>
          /\ FailedCalls = 1..maxRetries
          /\ retryValue = maxRetries
    /\ (retryState = "threw" /\ maxRetries = DefaultMaxRetries
          /\ baseDelayMs = DefaultBaseDelayMs) => waits = <<1000, 2000, 4000>>

-----------------------------------------------------------------------------
(* Properties of moveUid                                                   *)

\* the names of the commands one call of moveUid sent, in order
CmdNames(r) == [k \in 1..Len(r.cmds) |-> r.cmds[k].cmd]

\* the calls of moveUid that were not dry runs
RealMoves == {k \in 1..Len(moveResults) : ~dryRun}

C30_FallbackAfterFailedMove ==
    (\E c \in capabilities : toUpperCase(c) = <<"M", "O", "V", "E">>) =>
        \A k \in RealMoves :
            LET r == moveResults[k]
            IN  (r.uid \in refusedUids) =>
                    /\ Len(r.cmds) >= 2
                    /\ r.cmds[1].cmd = "move"
                    /\ r.cmds[2].cmd = "copy"

-----------------------------------------------------------------------------
(* The order of the search candidates                                      *)

\* the four queries of decreasing specificity for the cleaned names
Specificity(a, ar) ==
    <<AlbumField(a) \o <<" ">> \o ArtistField(ar),
      ArtistField(ar) \o <<" ">> \o AlbumField(FirstWords(a, 6)),
      AlbumField(a),
      a>>

\* C27: searchAlbum tries (a) quoted album and quoted artist, (b) quoted
\* artist and the album cut to 6 words, (c) the quoted album alone, (d) the
\* bare album text, in this order, a later one only after every earlier one
\* failed or found nothing, and returns at the first one that finds an item.
C27_CandidatesInOrder ==
    (searchResult # "called") =>
        /\ candidates = Specificity(CleanName(impl, qAlbum), CleanName(impl, qArtist))
        /\ Len(issued) <= Len(candidates)
        /\ \A k \in 1..Len(issued) : issued[k] = Shortened(impl, candidates[k])
        /\ \A k \in 1..(Len(answers) - 1) : answers[k] # "items"
        /\ (searchResult = "album") <=> (answers # <<>> /\ answers[Len(answers)] = "items")
        /\ (searchResult = "null") => Len(issued) = Len(candidates)

-----------------------------------------------------------------------------
(* The order of the strategies of extractAlbumArtistPairs                  *)

MarkupStages == {"s1", "s2", "s3"}

\* C22: the plain-text fallback runs if and only if the markup parsing threw
\* or strategies 1-3 found no pair; when they found at least one pair that
\* list, cut to 10, is returned and no line pattern is consulted.
C22_FallbackIffNothingFound ==
    [][(pc \in MarkupStages \cup {"load"} /\ pc' \in {"fallback", "done"}) =>
          /\ (pc' = "fallback") <=> (threw' \/ Len(pairs) = 0)
          /\ (pc' = "done") =>
                /\ outcome' = "returned"
                /\ Len(pairs) >= 1
                /\ result' = SubSeq(pairs, 1, Min(10, Len(pairs)))]_vars

\* C23: the structured-block, generic and image strategies run in this order,
\* each whenever fewer than 10 pairs have been collected so far; each appends
\* to the same list through addPair and none removes or reorders a pair that
\* was found before.
C23_StrategiesAccumulate ==
    [][/\ (pc = "load" /\ ~threw') => pc' = "s1"
       /\ (pc = "s1" /\ pc' # "s1") => (pc' = "s2" <=> Len(pairs) < 10)
       /\ (pc = "s2" /\ pc' # "s2") => (pc' = "s3" <=> Len(pairs) < 10)
       /\ (pc = "s3" /\ pc' # "s3") => pc' \notin MarkupStages
       /\ (pc \in MarkupStages) =>
             /\ IsPrefix(pairs, pairs')
             /\ Len(pairs') <= Len(pairs) + 1
             /\ (pairs' # pairs) =>
                   LET p == pairs'[Len(pairs')]
                       c == calls'[Len(calls')]
                   IN  /\ calls' = Append(calls, c)
                       /\ c.before = pairs
                       /\ c.after = pairs'
                       /\ Len(p.artist) >= 2
                       /\ Len(p.album) >= 2
                       /\ \A k \in 1..Len(pairs) :
                             \/ toLowerCase(pairs[k].artist) # toLowerCase(p.artist)
                             \/ toLowerCase(pairs[k].album) # toLowerCase(p.album)]_vars

\* the cards gave pairs, and the first link of the generic strategy added
\* one more behind them
C23_Witness ==
    /\ pc = "s2"
    /\ idx = 2
    /\ Len(calls) >= 2
    /\ calls[Len(calls)].before # <<>>
    /\ calls[Len(calls)].before = calls[Len(calls) - 1].after
    /\ Len(pairs) = Len(calls[Len(calls)].before) + 1
    /\ pairs = calls[Len(calls)].after

-----------------------------------------------------------------------------
(* The guard of the aggregator                                             *)

\* C24: an e-mail is processed only if its sender and its decoded subject
\* are the expected ones; one that fails either check is skipped entirely:
\* nothing of it enters a month bucket and its uid is not recorded.
C24_MismatchedEmailSkipped ==
    [][(/\ spc = "emails"
        /\ mailIdx <= Len(emails)
        /\ mailIdx' = mailIdx + 1
        /\ ~(SenderOk(emails[mailIdx]) /\ SubjectOk(emails[mailIdx])))
       => (monthToPairs' = monthToPairs /\ successfulEmailUids' = successfulEmailUids)]_vars

-----------------------------------------------------------------------------
(* decodeMimeEncodedWords on its own                                       *)

MaxWords == 2

\* =?utf-8?enc?payload?=
EncodedWord(enc, payload) ==
    <<"=", "?", "u", "t", "f", "-", "8", "?", enc, "?">> \o payload \o <<"?", "=">>

MimePieces == {
    <<"R", "e", ":", " ">>,
    EncodedWord("Q", <<"a", "_", "b", "=", "4", "1">>),
    EncodedWord("q", <<"x">>),
    EncodedWord("B", <<"S", "G", "k", "=">>),
    \* no character of the payload is in the base64 alphabet
    EncodedWord("B", <<"!", "!", "!", "!">>),
    \* "=" is not followed by two hexadecimal digits
    EncodedWord("Q", <<"=", "Z", "Z">>),
    \* an encoding that is neither Q nor B
    EncodedWord("X", <<"a", "b", "c">>) }

MimeInputs == {Flatten(w) : w \in UNION {[1..n -> MimePieces] : n \in 0..MaxWords}}

InitMime ==
    /\ impl \in Impls
    /\ StripIdle
    /\ ExtractIdle
    /\ SyncIdle
    /\ SearchIdle
    /\ TrashIdle
    /\ RetryIdle
    /\ mimeInput \in MimeInputs
    /\ mimeOutput = NoStr

\* decodeMimeEncodedWords(str)
DecodeMime ==
    /\ mimeOutput = NoStr
    /\ mimeOutput' = decodeMimeEncodedWords(mimeInput)
    /\ UNCHANGED <<impl, stripVars, extractVars, syncVars, searchVars, trashVars, retryVars,
                   mimeInput>>

NextMime == DecodeMime

SpecMime == InitMime /\ [][NextMime]_vars

-----------------------------------------------------------------------------
(* Properties of decodeMimeEncodedWords                                    *)

\* the payload of an encoded word cannot be decoded: a B payload with a
\* character outside the base64 alphabet, a Q payload with a "=" that is not
\* followed by two hexadecimal digits
Undecodable(w) ==
    IF w.enc \in {"B", "b"}
    THEN \E k \in 1..Len(w.text) : w.text[k] # "=" /\ PosIn(Base64Alphabet, w.text[k]) = 0
    ELSE \E k \in 1..Len(w.text) :
            /\ w.text[k] = "="
            /\ ~(k + 2 <= Len(w.text) /\ IsHex(w.text[k + 1]) /\ IsHex(w.text[k + 2]))

\* the string with every decodable encoded word decoded and every other one
\* left as it stands
RECURSIVE DecodedWhereDecodable(_)
DecodedWhereDecodable(str) ==
    LET j == MinPos({k \in 1..Len(str) : EncodedWordAt(str, k).ok})
        w == EncodedWordAt(str, j)
    IN  IF j = 0 THEN str
        ELSE SubSeq(str, 1, j - 1)
             \o (IF Undecodable(w) THEN SubSeq(str, j, w.end)
                 ELSE IF w.enc \in {"B", "b"} THEN DecodeB(w.text) ELSE DecodeQ(w.text))
             \o DecodedWhereDecodable(Drop(str, w.end))

\* C28: an encoded word whose decoding fails is left in its complete encoded
\* form =?charset?X?payload?=, the other encoded words of the string are
\* still decoded, and the call as a whole never fails.
C28_FailedRunLeftEncoded ==
    (mimeOutput # NoStr) => mimeOutput = DecodedWhereDecodable(mimeInput)

-----------------------------------------------------------------------------
(* The uids a mail server can report                                       *)

\* attrs.uid: 1, 2, 0, -1, 0.5, 2.5, a string, nothing
RawUids == {IntUid(1), IntUid(2), IntUid(0), IntUid(-1), FracUid(0), FracUid(2), TextUid,
            NullUid}

\* newsletters with one card each, and one without a card
UidMessages ==
    {Message(u, GoodFrom, EXPECTED_SUBJECT, January, HtmlBody(StdBlocks(1))) : u \in RawUids}
    \cup {Message(IntUid(3), GoodFrom, EXPECTED_SUBJECT, January, HtmlBody(<<>>))}

\* no reported uid twice
UidMailboxes ==
    {box \in UNION {[1..n -> UidMessages] : n \in 0..MaxEmails} :
        \A i, j \in 1..Len(box) : box[i].uid = box[j].uid => i = j}

InitUids ==
    /\ impl \in Impls
    /\ UtilIdle
    /\ StripIdle
    /\ ExtractIdle
    /\ mailbox \in UidMailboxes
    /\ unknownAlbums = {}
    /\ stuckUids \in StuckSets
    /\ playlists = <<>>
    /\ emails = <<>>
    /\ monthToPairs = <<>>
    /\ successfulEmailUids = <<>>
    /\ spc = "fetch"
    /\ mailIdx = 0
    /\ pairIdx = 0
    /\ playlistName = <<>>
    /\ monthPairs = <<>>
    /\ existingUris = <<>>
    /\ toAdd = <<>>
    /\ requests = <<>>
    /\ moved = <<>>
    /\ syncOutcome = "running"
    /\ credentials \in Credentials
    /\ catalogQuirk = "none"
    /\ run = 1
    /\ completedRuns = 0
    /\ faults = <<>>

SpecUids == InitUids /\ [][NextSync]_vars

\* C25: a uid enters successfulEmailUids only if it is a well-formed positive
\* integer: null, non-integer, zero and negative uids are never added, so the
\* archive step is never called with an invalid uid.
C25_OnlyPositiveIntegerUids ==
    /\ \A k \in 1..Len(successfulEmailUids) :
          successfulEmailUids[k].kind = "int" /\ successfulEmailUids[k].n > 0
    /\ \A k \in 1..Len(moved) : moved[k].uid.kind = "int" /\ moved[k].uid.n > 0


\* ---- a request the catalog answers with an error (429, timeout) ----

\* the number of requests answered with an error in one run
MaxFaults == 1

\* the calls of the playlist stage that stand outside the per-album try block
UnguardedCalls ==
    {"getCurrentUserId", "findPlaylistByName", "createPlaylist", "getPlaylistTrackUris",
     "addTracksToPlaylist", "reorderPlaylistByDateAdded"}

\* the calls inside the per-album try block
GuardedCalls == {"searchAlbum", "getAlbumFirstTrackUri"}

\* the record of a request that was answered with an error: the call, the
\* playlist it was made for, the pair, and its place in the request log
Fault(op, name, p, at) == [op |-> op, name |-> name, pair |-> p, at |-> at]

NoPair == [artist |-> <<>>, album |-> <<>>]

\* mutant: the error is logged and the run goes on with the archive step
AfterThrow_archive(op) == "trash"

\* where the run goes when a call throws: the per-album catch block warns and
\* the loop goes on; any other error reaches the catch block of the run
AfterThrow(op) == IF op \in GuardedCalls THEN "pairs" ELSE "done"

\* the part of the run that a thrown call outside the per-album guard ends
Thrown(op) ==
    /\ spc' = AfterThrow(op)
    /\ IF AfterThrow(op) = "done"
       THEN syncOutcome' = "failed" /\ UNCHANGED mailIdx
       ELSE mailIdx' = 1 /\ UNCHANGED syncOutcome

faultKeeps == <<impl, otherVars, mailbox, unknownAlbums, stuckUids, credentials,
                catalogQuirk, run, completedRuns, emails, monthToPairs,
                successfulEmailUids, moved>>

\* getCurrentUserId, findPlaylistByName, createPlaylist or
\* getPlaylistTrackUris throws at the head of the month loop
OpenPlaylistFails ==
    /\ spc = "months"
    /\ mailIdx <= Len(monthToPairs)
    /\ Len(faults) < MaxFaults
    /\ LET entry == monthToPairs[mailIdx]
           ps == uniqueBy(entry.pairs, <<>>)
           name == PlaylistName(entry.month)
           found == HasPlaylist(playlists, name)
           steps == <<"getCurrentUserId", "findPlaylistByName">>
                    \o (IF found THEN <<>> ELSE <<"createPlaylist">>)
                    \o <<"getPlaylistTrackUris">>
       IN  /\ Len(ps) > 0
           /\ \E n \in 1..Len(steps) :
                 /\ requests' = requests
                       \o [k \in 1..n |->
                             Req(steps[k],
                                 IF steps[k] = "getCurrentUserId" THEN <<>> ELSE name,
                                 <<>>, <<>>, <<>>)]
                 /\ playlists' = IF steps[n] = "getPlaylistTrackUris"
                                 THEN Created(playlists, name)
                                 ELSE playlists
                 /\ faults' = Append(faults, Fault(steps[n], name, NoPair, Len(requests) + n))
                 /\ Thrown(steps[n])
    /\ UNCHANGED <<faultKeeps, pairIdx, monthVars>>

\* one search request of searchAlbum fails: its catch block goes on with the
\* next candidate, and the album is found as it is without the error
SearchFails ==
    /\ spc = "pairs"
    /\ pairIdx <= Len(monthPairs)
    /\ Len(faults) < MaxFaults
    /\ LET p == monthPairs[pairIdx]
       IN  /\ requests' = requests
                 \o <<Req("searchAlbum", playlistName, p.artist, p.album, <<>>)>>
                 \o (IF AlbumFound(unknownAlbums, p)
                     THEN <<Req("getAlbumFirstTrackUri", playlistName, p.artist, p.album, <<>>)>>
                     ELSE <<>>)
           /\ toAdd' = PairResolved(toAdd, existingUris, unknownAlbums, catalogQuirk, p)
           /\ faults' = Append(faults, Fault("searchAlbum", playlistName, p, Len(requests) + 1))
    /\ pairIdx' = pairIdx + 1
    /\ UNCHANGED <<faultKeeps, playlists, spc, mailIdx, playlistName, monthPairs,
                   existingUris, syncOutcome>>

\* getAlbumFirstTrackUri throws: the per-album catch block warns, the pair
\* adds nothing to toAdd, and the loop goes on
TrackLookupFails ==
    /\ spc = "pairs"
    /\ pairIdx <= Len(monthPairs)
    /\ Len(faults) < MaxFaults
    /\ LET p == monthPairs[pairIdx]
       IN  /\ AlbumFound(unknownAlbums, p)
           /\ requests' = requests
                 \o <<Req("searchAlbum", playlistName, p.artist, p.album, <<>>),
                      Req("getAlbumFirstTrackUri", playlistName, p.artist, p.album, <<>>)>>
           /\ faults' = Append(faults,
                               Fault("getAlbumFirstTrackUri", playlistName, p, Len(requests) + 2))
           /\ spc' = AfterThrow("getAlbumFirstTrackUri")
    /\ pairIdx' = pairIdx + 1
    /\ UNCHANGED <<faultKeeps, playlists, mailIdx, monthVars, syncOutcome>>

\* the playlist after addTracksToPlaylist alone
AddedOnly(lists, name, uris, now) ==
    [k \in 1..Len(lists) |->
        IF lists[k].name = name
        THEN [name |-> name, tracks |-> Added(lists[k].tracks, uris, now)]
        ELSE lists[k]]

\* addTracksToPlaylist throws (nothing is added), or
\* reorderPlaylistByDateAdded throws after the tracks were added
FinishMonthFails ==
    /\ spc = "pairs"
    /\ pairIdx > Len(monthPairs)
    /\ Len(toAdd) > 0
    /\ Len(faults) < MaxFaults
    /\ \E op \in {"addTracksToPlaylist", "reorderPlaylistByDateAdded"} :
          /\ requests' = requests
                \o <<Req("addTracksToPlaylist", playlistName, <<>>, <<>>, toAdd)>>
                \o (IF op = "reorderPlaylistByDateAdded"
                    THEN <<Req(op, playlistName, <<>>, <<>>, <<>>)>>
                    ELSE <<>>)
          /\ playlists' = IF op = "reorderPlaylistByDateAdded"
                          THEN AddedOnly(playlists, playlistName, toAdd, run)
                          ELSE playlists
          /\ faults' = Append(faults,
                              Fault(op, playlistName, NoPair,
                                    Len(requests) + (IF op = "addTracksToPlaylist" THEN 1 ELSE 2)))
          /\ Thrown(op)
    /\ UNCHANGED <<faultKeeps, pairIdx, monthVars>>

NextFault ==
    \/ NextSync
    \/ OpenPlaylistFails
    \/ SearchFails
    \/ TrackLookupFails
    \/ FinishMonthFails

\* the messages of the runs with a failing request: a January and a December
\* newsletter, one without a card, one of another sender
FaultKinds == {
    [from |-> GoodFrom, subject |-> EXPECTED_SUBJECT, date |-> January,
     body |-> HtmlBody(StdBlocks(1)), hasUid |-> TRUE],
    [from |-> GoodFrom, subject |-> EXPECTED_SUBJECT, date |-> December,
     body |-> HtmlBody(StdBlocks(2)), hasUid |-> TRUE],
    [from |-> GoodFrom, subject |-> EXPECTED_SUBJECT, date |-> January,
     body |-> HtmlBody(<<>>), hasUid |-> TRUE],
    [from |-> OtherFrom, subject |-> EXPECTED_SUBJECT, date |-> January,
     body |-> HtmlBody(StdBlocks(1)), hasUid |-> TRUE] }

InitFault ==
    /\ impl \in Impls
    /\ UtilIdle
    /\ StripIdle
    /\ ExtractIdle
    /\ mailbox \in MailboxesOf(FaultKinds)
    /\ unknownAlbums \in Catalogs
    /\ stuckUids \in StuckSets
    /\ playlists \in PlaylistStates
    /\ emails = <<>>
    /\ monthToPairs = <<>>
    /\ successfulEmailUids = <<>>
    /\ spc = "fetch"
    /\ mailIdx = 0
    /\ pairIdx = 0
    /\ playlistName = <<>>
    /\ monthPairs = <<>>
    /\ existingUris = <<>>
    /\ toAdd = <<>>
    /\ requests = <<>>
    /\ moved = <<>>
    /\ syncOutcome = "running"
    /\ credentials \in Credentials
    /\ catalogQuirk = "none"
    /\ run = 1
    /\ completedRuns = 0
    /\ faults = <<>>

SpecFault == InitFault /\ [][NextFault]_vars

\* the requests of the log that were answered with an error
FailedAt == {faults[k].at : k \in 1..Len(faults)}

\* the album of a pair is on the playlist of its month
OnPlaylist(name, p) == InSeq(TracksOf(playlists, name), FirstTrackUri(catalogQuirk, p))

\* C21: one transient error on a search, a track lookup, a playlist write or
\* a reorder is absorbed: the run does not fail, and once the month loop is
\* over the album the failed request was made for is on its playlist
C21_TransientErrorAbsorbed ==
    \A k \in 1..Len(faults) :
        faults[k].op \in GuardedCalls \cup {"addTracksToPlaylist", "reorderPlaylistByDateAdded"}
        => /\ syncOutcome # "failed"
           /\ (/\ faults[k].op \in GuardedCalls
               /\ spc \in {"trash", "done"}
               /\ AlbumFound(unknownAlbums, faults[k].pair)
               /\ ~TrackLookupThrows(catalogQuirk, faults[k].pair))
              => OnPlaylist(faults[k].name, faults[k].pair)

\* C26: a message is moved only after every month with pairs had its playlist
\* opened and no call outside the per-album guard threw; a run that such a
\* call (or the token refresh) ended has failed with nothing moved; and the
\* tracks of every addTracksToPlaylist that succeeded are still on their
\* playlist
C26_NoArchiveBeforeAllMonths ==
    /\ moved # <<>>
       => /\ spc \in {"trash", "done"}
          /\ \A k \in 1..Len(faults) : faults[k].op \notin UnguardedCalls
          /\ \A m \in 1..Len(monthToPairs) :
                Len(uniqueBy(monthToPairs[m].pairs, <<>>)) > 0
                => \E k \in 1..Len(requests) :
                      /\ requests[k].op = "getPlaylistTrackUris"
                      /\ requests[k].name = PlaylistName(monthToPairs[m].month)
    /\ \A k \in 1..Len(faults) :
          faults[k].op \in UnguardedCalls
          => spc = "done" /\ syncOutcome = "failed" /\ moved = <<>>
    /\ syncOutcome = "failed" => moved = <<>>
    /\ \A k \in 1..Len(requests) :
          (requests[k].op = "addTracksToPlaylist" /\ k \notin FailedAt)
          => \A u \in 1..Len(requests[k].uris) :
                InSeq(TracksOf(playlists, requests[k].name), requests[k].uris[u])

\* a call of the second month threw after the playlist of the first month was
\* updated: the run has failed, the uids of both messages were recorded, and
\* nothing was moved
C26_Witness ==
    /\ spc = "done"
    /\ syncOutcome = "failed"
    /\ Len(successfulEmailUids) = 2
    /\ moved = <<>>
    /\ \E f \in 1..Len(faults) :
          /\ faults[f].op \in UnguardedCalls
          /\ \E k \in 1..Len(requests) :
                /\ requests[k].op = "addTracksToPlaylist"
                /\ k < faults[f].at
                /\ requests[k].name # faults[f].name
                /\ Len(requests[k].uris) > 0
                /\ InSeq(TracksOf(playlists, requests[k].name), requests[k].uris[1])

=============================================================================
